---- MODULE Spec2Model ----
(***************************************************************************)
(* Antigravity Manager: credential store (CloudAccountRepo) and its        *)
(* migration to encrypted fields, token manager (TokenManagerService),     *)
(* proxy retry loop and SSE translators (ProxyService), semantic cache     *)
(* (SemanticCacheRepo, SemanticCacheManager), auto-switcher                *)
(* (AutoSwitchService), quota monitor (CloudMonitorService), the           *)
(* CircuitBreaker and Semaphore of utils/resilience and the lifecycle of   *)
(* the HTTP server, modelled as interleaved steps.  Every `await` of the   *)
(* TypeScript source is a point where other tasks may run; the code        *)
(* between two awaits is one atomic action.                                *)
(***************************************************************************)
EXTENDS Integers, Sequences, FiniteSets, TLC

VARIABLES
    accounts,      \* table `accounts`, rows in rowid order
    settings,      \* table `settings`: auto_switch_enabled
    tokens,        \* TokenManagerService.tokens (Map, insertion order)
    currentIndex,  \* TokenManagerService.currentIndex
    cooldowns,     \* TokenManagerService.cooldowns, email -> until (0 = no entry)
    now,           \* Date.now(), milliseconds
    ticks,         \* number of clock advances so far
    gn,            \* one getNextToken activation per caller
    rr,            \* the last round-robin pick: list used and account taken
    req,           \* one chat request per caller (ProxyService handlers)
    sw,            \* AutoSwitchService.checkAndSwitchIfNeeded activation
    demoted,       \* ids whose is_active the last store transaction cleared
    mon,           \* CloudMonitorService: timer, semaphore and poll activations
    undecryptable, \* ids of rows whose token_json or quota_json decrypt() rejects
    cache,         \* table `semantic_cache`, rows in rowid order
    cm,            \* SemanticCacheManager: one findResponse and one captureAndStore activation
    mig,           \* plaintext fields of the store and the activation of migrateToEncrypted
    cb,            \* one CircuitBreaker and the execute call of each caller
    runs,          \* one Semaphore and the run calls made on it
    strm,          \* one streaming chat request: upstream, translators, subscribers
    srv            \* server module: app, currentPort, instances, lifecycle calls

vars == <<accounts, settings, tokens, currentIndex, cooldowns, now, ticks, gn, rr, req, sw, demoted, mon, undecryptable, cache, cm, mig, cb, runs, strm, srv>>

---------------------------------------------------------------------------
(* Bounds of the model *)

MaxTicks == 3          \* clock advances
MaxCalls == 4          \* getNextToken selections counted by currentIndex
MaxChunks == 3         \* chunks an upstream stream delivers
MaxRows == 2           \* rows of the semantic cache
MaxInstances == 3      \* applications NestFactory.create makes

(* Program constants *)
CooldownMs == 300000        \* 5 * 60 * 1000
RefreshMarginS == 300       \* refresh when expiring in < 5 minutes
maxRetries == 3
HYSTERESIS_THRESHOLD == 5
CriticalScore == 10
QuotaWeight == 60
ActiveBonus == 40
RefreshingBonus == 20
MaxScore == 100
DepletedThreshold == 5
MaxConcurrency == 3
MAX_RETRIES == 3
MonitorRefreshMarginS == 600
SimilarityThreshold == 97    \* threshold = 0.97, in hundredths
DefaultFailureThreshold == 5
DefaultResetTimeout == 30000

\* The clock advances in steps of a third of the cooldown.
TickMs == CooldownMs \div 3

---------------------------------------------------------------------------
(* Accounts *)

CloudIds == {"a", "b", "c"}
LocalIds == {"l"}
Ids == CloudIds \cup LocalIds

ProviderOf(id) == IF id \in LocalIds THEN "local-ollama" ELSE "google"
EmailOf(id) == IF id = "a" THEN "a@x" ELSE IF id = "b" THEN "b@x"
               ELSE IF id = "c" THEN "c@x" ELSE "l@localhost"
Emails == {EmailOf(id) : id \in Ids}

\* provider.startsWith('local-')
IsLocal(provider) == provider \in {"local-ollama", "local-lmstudio"}


NoQuota == [present |-> FALSE, models |-> <<>>]
Quota(pcts) == [present |-> TRUE, models |-> pcts]

NoProject == "none"

Token(access, expiresIn, expiry, project) ==
    [access_token |-> access, expires_in |-> expiresIn,
     expiry_timestamp |-> expiry, project_id |-> project]

Account(id, active, tok, quota, lastUsed, status, selected) ==
    [id |-> id, provider |-> ProviderOf(id), email |-> EmailOf(id),
     token |-> tok, quota |-> quota, last_used |-> lastUsed,
     status |-> status, is_active |-> active, selected_models |-> selected]

---------------------------------------------------------------------------
(* Sequence helpers *)

RECURSIVE SeqFilterOut(_, _)
SeqFilterOut(s, id) ==
    IF s = <<>> THEN <<>>
    ELSE IF Head(s).id = id THEN SeqFilterOut(Tail(s), id)
    ELSE <<Head(s)>> \o SeqFilterOut(Tail(s), id)

HasId(rows, id) == \E i \in DOMAIN rows : rows[i].id = id
RowIndex(rows, id) == CHOOSE i \in DOMAIN rows : rows[i].id = id

\* Insert row r into a list sorted by last_used descending, after equal keys.
RECURSIVE InsertDesc(_, _)
InsertDesc(sorted, r) ==
    IF sorted = <<>> THEN <<r>>
    ELSE IF Head(sorted).last_used >= r.last_used
         THEN <<Head(sorted)>> \o InsertDesc(Tail(sorted), r)
         ELSE <<r>> \o sorted

RECURSIVE SortByLastUsedDesc(_)
SortByLastUsedDesc(rows) ==
    IF rows = <<>> THEN <<>>
    ELSE InsertDesc(SortByLastUsedDesc(SubSeq(rows, 1, Len(rows) - 1)), rows[Len(rows)])

---------------------------------------------------------------------------
(* CloudAccountRepo *)

\* UPDATE accounts SET is_active = 0
DeactivateAll(rows) == [i \in DOMAIN rows |-> [rows[i] EXCEPT !.is_active = FALSE]]

\* Mutant of the transaction of addAccount: the deactivation is left out.
AddAccountRowsNoDemote(rows, account) ==
    SeqFilterOut(rows, account.id) \o <<account>>

\* The transaction of addAccount: deactivate all when the new row is active,
\* then INSERT OR REPLACE (the replaced row is deleted, the new one appended).
AddAccountRows(rows, account) ==
    LET cleared == IF account.is_active THEN DeactivateAll(rows) ELSE rows
    IN  SeqFilterOut(cleared, account.id) \o <<account>>

\* SELECT * FROM accounts ORDER BY last_used DESC
getAccounts == SortByLastUsedDesc(accounts)

\* getAccounts, lines 193-208: Promise.all over the rows rejects when decrypt
\* rejects for the token_json or quota_json of any row.
DecryptFails(rows, bad) == \E i \in DOMAIN rows : rows[i].id \in bad

\* The transaction of setActive: demote all, promote id (no row: nothing promoted).
SetActiveRows(rows, id) ==
    [i \in DOMAIN rows |-> [rows[i] EXCEPT !.is_active = (rows[i].id = id)]]

ActiveRows(rows) == {i \in DOMAIN rows : rows[i].is_active}
ActiveIds(rows) == {rows[i].id : i \in ActiveRows(rows)}

---------------------------------------------------------------------------
(* Model names: a string is a sequence of symbols; "models/" is the literal *)
(* lower-case prefix as one symbol and "MODELS/" its upper-case spelling.   *)

\* s.replace(/^models\//, ''): the regular expression is case-sensitive.
StripModelsPrefix(s) == IF s # <<>> /\ Head(s) = "models/" THEN Tail(s) ELSE s

LowerSym(c) == IF c = "A" THEN "a" ELSE IF c = "B" THEN "b"
               ELSE IF c = "MODELS/" THEN "models/" ELSE c

toLowerCase(s) == [i \in DOMAIN s |-> LowerSym(s[i])]

CleanModel(s) == toLowerCase(StripModelsPrefix(s))

\* requestedModel is optional: <<>> stands for undefined (and for '').
NoModel == <<>>

---------------------------------------------------------------------------
(* TokenManagerService: the in-memory map *)

convertAccountToToken(account) ==
    [account_id |-> account.id, email |-> account.email, provider |-> account.provider,
     access_token |-> account.token.access_token,
     expires_in |-> account.token.expires_in,
     expiry_timestamp |-> account.token.expiry_timestamp,
     project_id |-> account.token.project_id,
     selected_models |-> account.selected_models]

HasKey(m, id) == \E i \in DOMAIN m : m[i].account_id = id
KeyIndex(m, id) == CHOOSE i \in DOMAIN m : m[i].account_id = id
MapGet(m, id) == m[KeyIndex(m, id)]

\* Map.set: an existing key keeps its place, a new key is appended.
MapSet(m, td) ==
    IF HasKey(m, td.account_id)
    THEN [i \in DOMAIN m |-> IF m[i].account_id = td.account_id THEN td ELSE m[i]]
    ELSE Append(m, td)

\* The loop of loadAccounts over the rows read.
RECURSIVE MapSetAll(_, _)
MapSetAll(m, rows) ==
    IF rows = <<>> THEN m
    ELSE MapSetAll(MapSet(m, convertAccountToToken(Head(rows))), Tail(rows))

\* Mutant of the cooldown test: an account is eligible only strictly after the timestamp.
isNotCooldownStrict(until, t) == until = 0 \/ until < t

\* !cooldownUntil || cooldownUntil <= now
isNotCooldown(until, t) == until = 0 \/ until <= t

isModelAllowed(requestedModel, selected) ==
    IF requestedModel # <<>> /\ selected # <<>>
    THEN \E i \in DOMAIN selected : CleanModel(selected[i]) = CleanModel(requestedModel)
    ELSE TRUE

\* validTokens: the entries of the map that pass both tests, in map order.
validTokens(m, cds, requestedModel, t) ==
    LET Test(d) == isNotCooldown(cds[d.email], t)
                   /\ isModelAllowed(requestedModel, d.selected_models)
    IN  SelectSeq(m, Test)

IdsOf(m) == [i \in DOMAIN m |-> m[i].account_id]

\* accountsInDb.find(a => a.is_active)
NoActive == [some |-> FALSE, id |-> "none", provider |-> "none"]
FindActive(rows) ==
    IF \E i \in DOMAIN rows : rows[i].is_active
    THEN LET i == CHOOSE j \in DOMAIN rows :
                    rows[j].is_active /\ \A k \in 1..(j - 1) : ~rows[k].is_active
         IN  [some |-> TRUE, id |-> rows[i].id, provider |-> rows[i].provider]
    ELSE NoActive

---------------------------------------------------------------------------
(* TokenManagerService.getNextToken, one activation per caller *)

Procs == {"p1", "p2"}

NoToken == Token("none", 0, 0, NoProject)
NoRet == [some |-> FALSE, id |-> "none", email |-> "none", provider |-> "none",
          token |-> NoToken]
NoSave == [write |-> FALSE, token |-> NoToken]

\* pc: idle, loading (await loadAccounts), selecting (await getAccounts),
\* refreshing (await refreshAccessToken), saving (await getAccount/updateToken),
\* discovering (await fetchProjectId), savingPid, done (ret is the result).
\* held: token objects this activation references that the map no longer holds.
GnIdle == [pc |-> "idle", model |-> NoModel, snap |-> <<>>, nowMs |-> 0,
           valid |-> <<>>, active |-> NoActive, accountId |-> "none",
           pinned |-> FALSE, held |-> <<>>, save |-> NoSave, ret |-> NoRet,
           readFailed |-> FALSE]

nowSeconds(g) == g.nowMs \div 1000

IsHeld(g, id) == \E i \in DOMAIN g.held : g.held[i].account_id = id

\* tokenData of the activation: its own object, or the one the map holds.
TDof(g, m) == IF IsHeld(g, g.accountId) THEN MapGet(g.held, g.accountId)
              ELSE MapGet(m, g.accountId)

\* A write through the tokenData reference.
HeldAfterWrite(g, td) == IF IsHeld(g, g.accountId) THEN MapSet(g.held, td) ELSE g.held
MapAfterWrite(g, m, td) == IF IsHeld(g, g.accountId) THEN m ELSE MapSet(m, td)

\* The token objects an activation references while it is suspended.
Referenced(g) ==
    IF g.pc = "selecting" THEN {g.valid[i] : i \in DOMAIN g.valid}
    ELSE IF g.pc \in {"refreshing", "saving", "discovering", "savingPid"}
         THEN {g.accountId}
         ELSE {}

\* Map entries with a key in `replaced` get new objects: an activation that
\* references the old object of such a key keeps it in `held`.
RECURSIVE KeepOld(_, _, _)
KeepOld(held, m, ks) ==
    IF ks = {} THEN held
    ELSE LET k == CHOOSE x \in ks : TRUE
         IN  KeepOld(Append(held, MapGet(m, k)), m, ks \ {k})

Detach(g, m, replaced) ==
    LET ks == {k \in Referenced(g) \cap replaced : HasKey(m, k) /\ ~IsHeld(g, k)}
    IN  [g EXCEPT !.held = KeepOld(g.held, m, ks)]

RetOf(td) == [some |-> TRUE, id |-> td.account_id, email |-> td.email,
              provider |-> td.provider,
              token |-> Token(td.access_token, td.expires_in, td.expiry_timestamp,
                              td.project_id)]

\* The activation is over: only its result is kept.
Returned(g, ret) == [GnIdle EXCEPT !.pc = "done", !.ret = ret]

\* Lines 490-518: the filter, and the read of the store that follows it.
Filtered(g, m, cds) ==
    LET valid == IdsOf(validTokens(m, cds, g.model, now))
    IN  IF valid = <<>>
        THEN Returned([g EXCEPT !.nowMs = now], NoRet)
        ELSE [g EXCEPT !.pc = "selecting", !.nowMs = now, !.valid = valid,
                       !.snap = <<>>, !.active = FindActive(getAccounts),
                       !.readFailed = DecryptFails(accounts, undecryptable)]

\* Lines 562-595: project discovery is needed, or the account is returned.
NeedsProject(td) == td.project_id = NoProject /\ td.provider \in {"google", "anthropic"}

\* Mutant of the refresh's catch: the error reaches the outer catch (line 596).
AfterRefreshNull(g, m) == Returned(g, NoRet)

AfterRefresh(g, m) ==
    IF NeedsProject(TDof(g, m)) THEN [g EXCEPT !.pc = "discovering", !.save = NoSave]
    ELSE Returned(g, RetOf(TDof(g, m)))

\* `cloud-code-${email.split('@')[0]}`
FallbackProjectId(email) ==
    IF email = "a@x" THEN "cloud-code-a" ELSE IF email = "b@x" THEN "cloud-code-b"
    ELSE IF email = "c@x" THEN "cloud-code-c" ELSE "cloud-code-l"

\* UPDATE accounts SET token_json = ? WHERE id = ?
UpdateTokenRows(rows, id, tok) ==
    [i \in DOMAIN rows |-> IF rows[i].id = id THEN [rows[i] EXCEPT !.token = tok] ELSE rows[i]]

\* getAccount(id) followed by the construction of newToken (lines 617-624).
RefreshedSave(rows, id, td) ==
    IF HasId(rows, id)
    THEN [write |-> TRUE,
          token |-> [rows[RowIndex(rows, id)].token EXCEPT
                        !.access_token = td.access_token,
                        !.expires_in = td.expires_in,
                        !.expiry_timestamp = td.expiry_timestamp]]
    ELSE NoSave

\* getAccount(id) followed by the construction of newToken (lines 634-639).
ProjectSave(rows, id, projectId) ==
    IF HasId(rows, id)
    THEN [write |-> TRUE, token |-> [rows[RowIndex(rows, id)].token EXCEPT !.project_id = projectId]]
    ELSE NoSave

---------------------------------------------------------------------------
(* Inputs *)

M_a == <<"a">>                       \* 'a'
M_prefA == <<"models/", "A">>        \* 'models/A'
M_b == <<"b">>                       \* 'b'

ExpiresInVals == {100, 3600}
RefreshOutcomes ==
    {[ok |-> FALSE, access_token |-> "none", expires_in |-> 0]}
    \cup {[ok |-> TRUE, access_token |-> "t1", expires_in |-> e] : e \in ExpiresInVals}

---------------------------------------------------------------------------
(* Store actions *)

addAccount(account) ==
    /\ accounts' = AddAccountRows(accounts, account)
    /\ demoted' = IF account.is_active THEN ActiveIds(accounts) \ {account.id} ELSE {}
    /\ UNCHANGED <<settings, tokens, currentIndex, cooldowns, now, ticks, gn, rr, req, sw, mon, undecryptable, cache, cm, mig, cb, runs, strm, srv>>

setActive(id) ==
    /\ accounts' = SetActiveRows(accounts, id)
    /\ demoted' = ActiveIds(accounts) \ {id}
    /\ UNCHANGED <<settings, tokens, currentIndex, cooldowns, now, ticks, gn, rr, req, sw, mon, undecryptable, cache, cm, mig, cb, runs, strm, srv>>

removeAccount(id) ==
    /\ accounts' = SeqFilterOut(accounts, id)
    /\ demoted' = {}
    /\ UNCHANGED <<settings, tokens, currentIndex, cooldowns, now, ticks, gn, rr, req, sw, mon, undecryptable, cache, cm, mig, cb, runs, strm, srv>>

updateSelectedModels(id, models) ==
    /\ accounts' = [i \in DOMAIN accounts |->
                      IF accounts[i].id = id
                      THEN [accounts[i] EXCEPT !.selected_models = models]
                      ELSE accounts[i]]
    /\ demoted' = {}
    /\ UNCHANGED <<settings, tokens, currentIndex, cooldowns, now, ticks, gn, rr, req, sw, mon, undecryptable, cache, cm, mig, cb, runs, strm, srv>>

updateLastUsed(id) ==
    /\ accounts' = [i \in DOMAIN accounts |->
                      IF accounts[i].id = id
                      THEN [accounts[i] EXCEPT !.last_used = now \div 1000]
                      ELSE accounts[i]]
    /\ demoted' = {}
    /\ UNCHANGED <<settings, tokens, currentIndex, cooldowns, now, ticks, gn, rr, req, sw, mon, undecryptable, cache, cm, mig, cb, runs, strm, srv>>

\* Date.now() advances.
Tick ==
    /\ ticks < MaxTicks
    /\ now' = now + TickMs
    /\ ticks' = ticks + 1
    /\ UNCHANGED <<accounts, settings, tokens, currentIndex, cooldowns, gn, rr, req, sw, demoted, mon, undecryptable, cache, cm, mig, cb, runs, strm, srv>>

---------------------------------------------------------------------------
(* Token manager actions *)

markAsRateLimited(email) ==
    /\ cooldowns' = [cooldowns EXCEPT ![email] = now + CooldownMs]
    /\ UNCHANGED <<accounts, settings, tokens, currentIndex, now, ticks, gn, rr, req, sw, demoted, mon, undecryptable, cache, cm, mig, cb, runs, strm, srv>>

resetCooldown(email) ==
    /\ cooldowns' = [cooldowns EXCEPT ![email] = 0]
    /\ UNCHANGED <<accounts, settings, tokens, currentIndex, now, ticks, gn, rr, req, sw, demoted, mon, undecryptable, cache, cm, mig, cb, runs, strm, srv>>

\* The synchronous head of getNextToken (lines 483-518): with an empty map the
\* store is read for loadAccounts, otherwise the filter runs at once.
Called(requestedModel, cds) ==
    LET g == [GnIdle EXCEPT !.model = requestedModel]
    IN  IF tokens = <<>>
        THEN [g EXCEPT !.pc = "loading",
                       !.snap = IF DecryptFails(accounts, undecryptable) THEN <<>>
                                ELSE getAccounts]
        ELSE Filtered(g, tokens, cds)

getNextToken(p, requestedModel) ==
    /\ gn[p].pc \in {"idle", "done"}
    /\ currentIndex < MaxCalls
    /\ gn' = [gn EXCEPT ![p] = Called(requestedModel, cooldowns)]
    /\ UNCHANGED <<accounts, settings, tokens, currentIndex, cooldowns, now, ticks, rr, req, sw, demoted, mon, undecryptable, cache, cm, mig, cb, runs, strm, srv>>

\* loadAccounts resumes with the rows read (lines 441-450), or with nothing
\* from its catch block (lines 451-454); then lines 488-518.
GN_Loaded(p) ==
    /\ gn[p].pc = "loading"
    /\ LET g == gn[p]
           m2 == MapSetAll(tokens, g.snap)
           replaced == {g.snap[i].id : i \in DOMAIN g.snap}
           others == [q \in Procs |-> Detach(gn[q], tokens, replaced)]
       IN  /\ tokens' = m2
           /\ gn' = [others EXCEPT ![p] = IF m2 = <<>> THEN Returned(g, NoRet)
                                          ELSE Filtered(g, m2, cooldowns)]
    /\ UNCHANGED <<accounts, settings, currentIndex, cooldowns, now, ticks, rr, req, sw, demoted, mon, undecryptable, cache, cm, mig, cb, runs, strm, srv>>

\* Lines 524-527: the active account is local and the map holds it.
PinApplies(active, m) == active.some /\ IsLocal(active.provider) /\ HasKey(m, active.id)

\* this.currentIndex % validTokens.length
SelectPosition(index, n) == index % n

\* Mutant of the advance: the index is left as it is.
NextIndexStuck(index) == index

\* this.currentIndex++
NextIndex(index) == index + 1

\* nowSeconds >= tokenData.expiry_timestamp - 300
NeedsRefresh(nowS, td) == nowS >= td.expiry_timestamp - RefreshMarginS

\* Lines 519-543: the choice of the account, after the store was read; when
\* getAccounts rejected, the catch block of lines 596-599 returns null.
GN_Select(p) ==
    /\ gn[p].pc = "selecting"
    /\ LET g == gn[p]
           pin == PinApplies(g.active, tokens)
           pos == SelectPosition(currentIndex, Len(g.valid))
           id == IF pin THEN g.active.id ELSE g.valid[pos + 1]
           Mine(d) == d.account_id = id
           g1 == [g EXCEPT !.accountId = id, !.pinned = pin, !.valid = <<>>,
                           !.held = IF pin THEN <<>> ELSE SelectSeq(g.held, Mine)]
       IN  IF g.readFailed
           THEN /\ gn' = [gn EXCEPT ![p] = Returned(g, NoRet)]
                /\ UNCHANGED <<currentIndex, rr>>
           ELSE /\ currentIndex' = IF pin THEN currentIndex ELSE NextIndex(currentIndex)
                /\ rr' = IF pin THEN rr ELSE [some |-> TRUE, list |-> g.valid, id |-> id]
                /\ gn' = [gn EXCEPT ![p] =
                             IF NeedsRefresh(nowSeconds(g1), TDof(g1, tokens))
                             THEN [g1 EXCEPT !.pc = "refreshing"]
                             ELSE AfterRefresh(g1, tokens)]
    /\ UNCHANGED <<accounts, settings, tokens, cooldowns, now, ticks, req, sw, demoted, mon, undecryptable, cache, cm, mig, cb, runs, strm, srv>>

\* tokenData.expiry_timestamp = nowSeconds + newTokens.expires_in
RefreshedExpiry(nowS, old, expiresIn) == nowS + expiresIn

\* refreshAccessToken resumes (lines 545-553 up to the read in saveRefreshedToken),
\* or throws (lines 557-559).
GN_Refreshed(p) ==
    /\ gn[p].pc = "refreshing"
    /\ \E out \in RefreshOutcomes :
        LET g == gn[p]
            td == TDof(g, tokens)
            td2 == [td EXCEPT !.access_token = out.access_token,
                              !.expires_in = out.expires_in,
                              !.expiry_timestamp =
                                  RefreshedExpiry(nowSeconds(g), td.expiry_timestamp,
                                                  out.expires_in)]
        IN  IF out.ok
            THEN /\ tokens' = MapAfterWrite(g, tokens, td2)
                 /\ gn' = [gn EXCEPT ![p] =
                             [g EXCEPT !.pc = "saving",
                                       !.held = HeldAfterWrite(g, td2),
                                       !.save = RefreshedSave(accounts, g.accountId, td2)]]
            ELSE /\ tokens' = tokens
                 /\ gn' = [gn EXCEPT ![p] = AfterRefresh(g, tokens)]
    /\ UNCHANGED <<accounts, settings, currentIndex, cooldowns, now, ticks, rr, req, sw, demoted, mon, undecryptable, cache, cm, mig, cb, runs, strm, srv>>

\* updateToken writes (line 625), then this.tokens.set(accountId, tokenData) (line 554).
GN_Saved(p) ==
    /\ gn[p].pc = "saving"
    /\ LET g == gn[p]
           td == TDof(g, tokens)
           m2 == MapSet(tokens, td)
           mine == IsHeld(g, g.accountId)
           NotMine(d) == d.account_id # g.accountId
           g1 == [g EXCEPT !.held = SelectSeq(g.held, NotMine), !.save = NoSave]
           others == [q \in Procs |->
                        IF mine THEN Detach(gn[q], tokens, {g.accountId}) ELSE gn[q]]
       IN  /\ accounts' = IF g.save.write
                          THEN UpdateTokenRows(accounts, g.accountId, g.save.token)
                          ELSE accounts
           /\ tokens' = m2
           /\ gn' = [others EXCEPT ![p] = AfterRefresh(g1, m2)]
    /\ UNCHANGED <<settings, currentIndex, cooldowns, now, ticks, rr, req, sw, demoted, mon, undecryptable, cache, cm, mig, cb, runs, strm, srv>>

\* fetchProjectId resumes with an id (lines 567-569), or with nothing or an
\* exception (lines 570-577).
GN_Discovered(p) ==
    /\ gn[p].pc = "discovering"
    /\ \E found \in BOOLEAN :
        LET g == gn[p]
            td == TDof(g, tokens)
            pid == IF found THEN "proj-real" ELSE FallbackProjectId(td.email)
            td2 == [td EXCEPT !.project_id = pid]
            g2 == [g EXCEPT !.held = HeldAfterWrite(g, td2)]
        IN  /\ tokens' = MapAfterWrite(g, tokens, td2)
            /\ gn' = [gn EXCEPT ![p] =
                        IF found
                        THEN [g2 EXCEPT !.pc = "savingPid",
                                        !.save = ProjectSave(accounts, g.accountId, pid)]
                        ELSE Returned(g2, RetOf(td2))]
    /\ UNCHANGED <<accounts, settings, currentIndex, cooldowns, now, ticks, rr, req, sw, demoted, mon, undecryptable, cache, cm, mig, cb, runs, strm, srv>>

\* updateToken writes the project id (line 640); the account is returned.
GN_SavedPid(p) ==
    /\ gn[p].pc = "savingPid"
    /\ LET g == gn[p]
       IN  /\ accounts' = IF g.save.write
                          THEN UpdateTokenRows(accounts, g.accountId, g.save.token)
                          ELSE accounts
           /\ gn' = [gn EXCEPT ![p] = Returned(g, RetOf(TDof(g, tokens)))]
    /\ UNCHANGED <<settings, tokens, currentIndex, cooldowns, now, ticks, rr, req, sw, demoted, mon, undecryptable, cache, cm, mig, cb, runs, strm, srv>>

---------------------------------------------------------------------------
(* ProxyService: one chat request per caller.  An error message is a         *)
(* sequence of words.                                                        *)

NoError == <<>>
E429 == <<"429", "RESOURCE_EXHAUSTED">>
E401 == <<"401", "unauthorized">>
ELocal == <<"ECONNREFUSED">>
ECache == <<"SQLITE_ERROR">>
DispatchErrors == {E429, E401}

LowerWord(w) == IF w = "RESOURCE_EXHAUSTED" THEN "resource_exhausted" ELSE w

\* shouldRetry: the lower-cased message includes one of the four words.
shouldRetry(msg) ==
    \E i \in DOMAIN msg :
        LowerWord(msg[i]) \in {"429", "quota", "limit", "resource_exhausted"}

\* new Error(`No available accounts satisfy model: ${request.model}`)
NoAccountsError(model) == <<"No available accounts satisfy model: ">> \o model
RequestFailedError == <<"Request failed after retries">>

\* ProxyController: 200 with the result, or 500 with the error's message.
NoResult == [status |-> 0, message |-> <<>>]
Ok == [status |-> 200, message |-> <<>>]
ServerError(msg) == [status |-> 500, message |-> msg]

\* pc: idle, sleeping (await sleep), awaitToken (await getNextToken), local
\* (await localAIClient), cache (await findResponse), dispatching (await
\* geminiClient), finished (the controller has answered with result).
\* calls, dispatches and errs record what the request has done so far.
ReqIdle == [pc |-> "idle", handler |-> "none", model |-> NoModel, i |-> 0,
            token |-> NoRet, lastError |-> NoError, calls |-> 0, dispatches |-> 0,
            errs |-> <<>>, result |-> NoResult, stream |-> FALSE, prompt |-> <<>>]

Finished(r, result) == [r EXCEPT !.pc = "finished", !.result = result, !.token = NoRet]

\* Mutant of the loop condition: one more iteration.
LoopContinuesOneMore(i) == i <= maxRetries

\* for (let i = 0; i < maxRetries; i++)
LoopContinues(i) == i < maxRetries

\* The Anthropic handler sleeps before every attempt but the first.
Sleeps(r) == r.handler = "anthropic" /\ r.i > 0

\* The loop condition with the head of the body up to its first await, or the
\* throw after the loop (lines 52-59 and 118, 132-133 and 192).
ReqAtLoop(r) ==
    IF LoopContinues(r.i)
    THEN IF Sleeps(r) THEN [r EXCEPT !.pc = "sleeping"]
         ELSE [r EXCEPT !.pc = "awaitToken", !.calls = @ + 1]
    ELSE Finished(r, ServerError(IF r.lastError # NoError THEN r.lastError
                                 ELSE RequestFailedError))

GnAtLoop(r, g, cds) ==
    IF LoopContinues(r.i) /\ ~Sleeps(r) THEN Called(r.model, cds) ELSE g

\* A request arrives at the handler.
Arrived(handler, model) == [ReqIdle EXCEPT !.handler = handler, !.model = model]

handleChatCompletions(p, model) ==
    /\ req[p].pc \in {"idle", "finished"}
    /\ currentIndex < MaxCalls
    /\ req' = [req EXCEPT ![p] = ReqAtLoop(Arrived("openai", model))]
    /\ gn' = [gn EXCEPT ![p] = GnAtLoop(Arrived("openai", model), GnIdle, cooldowns)]
    /\ UNCHANGED <<accounts, settings, tokens, currentIndex, cooldowns, now, ticks, rr, sw, demoted, mon, undecryptable, cache, cm, mig, cb, runs, strm, srv>>

handleAnthropicMessages(p, model) ==
    /\ req[p].pc \in {"idle", "finished"}
    /\ currentIndex < MaxCalls
    /\ req' = [req EXCEPT ![p] = ReqAtLoop(Arrived("anthropic", model))]
    /\ gn' = [gn EXCEPT ![p] = GnAtLoop(Arrived("anthropic", model), GnIdle, cooldowns)]
    /\ UNCHANGED <<accounts, settings, tokens, currentIndex, cooldowns, now, ticks, rr, sw, demoted, mon, undecryptable, cache, cm, mig, cb, runs, strm, srv>>

\* await sleep(delay) resumes (line 56), then line 59.
Req_Slept(p) ==
    /\ req[p].pc = "sleeping"
    /\ req' = [req EXCEPT ![p] = [@ EXCEPT !.pc = "awaitToken", !.calls = @ + 1]]
    /\ gn' = [gn EXCEPT ![p] = Called(req[p].model, cooldowns)]
    /\ UNCHANGED <<accounts, settings, tokens, currentIndex, cooldowns, now, ticks, rr, sw, demoted, mon, undecryptable, cache, cm, mig, cb, runs, strm, srv>>

\* getNextToken has returned (lines 60-81, 134-155).
Req_Token(p) ==
    /\ req[p].pc = "awaitToken"
    /\ ~req[p].stream
    /\ gn[p].pc = "done"
    /\ LET r == req[p]
           token == gn[p].ret
       IN  req' = [req EXCEPT ![p] =
                     IF ~token.some THEN Finished(r, ServerError(NoAccountsError(r.model)))
                     ELSE IF IsLocal(token.provider)
                          THEN [r EXCEPT !.pc = "local", !.token = token,
                                         !.dispatches = @ + 1]
                          ELSE [r EXCEPT !.pc = "cache", !.token = token]]
    /\ gn' = [gn EXCEPT ![p] = GnIdle]
    /\ UNCHANGED <<accounts, settings, tokens, currentIndex, cooldowns, now, ticks, rr, sw, demoted, mon, undecryptable, cache, cm, mig, cb, runs, strm, srv>>

\* The local client answers or throws (lines 70-76, 144-150): outside the try.
Req_Local(p) ==
    /\ req[p].pc = "local"
    /\ ~req[p].stream
    /\ \E ok \in BOOLEAN :
          req' = [req EXCEPT ![p] =
                    Finished(@, IF ok THEN Ok ELSE ServerError(ELocal))]
    /\ UNCHANGED <<accounts, settings, tokens, currentIndex, cooldowns, now, ticks, gn, rr, sw, demoted, mon, undecryptable, cache, cm, mig, cb, runs, strm, srv>>

\* findResponse answers (lines 81-93, 155-166), then the upstream call is
\* issued (lines 95-105, 168-179); an exception of findResponse is outside the try.
Req_Cache(p) ==
    /\ req[p].pc = "cache"
    /\ ~req[p].stream
    /\ \E out \in {"hit", "miss", "throw"} :
          req' = [req EXCEPT ![p] =
                    IF out = "hit" THEN Finished(@, Ok)
                    ELSE IF out = "throw" THEN Finished(@, ServerError(ECache))
                    ELSE [@ EXCEPT !.pc = "dispatching", !.dispatches = @ + 1]]
    /\ UNCHANGED <<accounts, settings, tokens, currentIndex, cooldowns, now, ticks, gn, rr, sw, demoted, mon, undecryptable, cache, cm, mig, cb, runs, strm, srv>>

\* The upstream call answers, or throws into the catch block (lines 111-116,
\* 185-190) after which the loop goes on.
Req_Dispatch(p) ==
    /\ req[p].pc = "dispatching"
    /\ ~req[p].stream
    /\ \E out \in {NoError} \cup DispatchErrors :
          IF out = NoError
          THEN /\ req' = [req EXCEPT ![p] = Finished(@, Ok)]
               /\ UNCHANGED <<cooldowns, gn, mon, undecryptable, cache, cm, mig, cb, runs, strm, srv>>
          ELSE LET r == req[p]
                   cds == IF shouldRetry(out)
                          THEN [cooldowns EXCEPT ![r.token.email] = now + CooldownMs]
                          ELSE cooldowns
                   r1 == [r EXCEPT !.lastError = out, !.errs = Append(@, out),
                                   !.i = @ + 1, !.token = NoRet]
               IN  /\ cooldowns' = cds
                   /\ req' = [req EXCEPT ![p] = ReqAtLoop(r1)]
                   /\ gn' = [gn EXCEPT ![p] = GnAtLoop(r1, gn[p], cds)]
    /\ UNCHANGED <<accounts, settings, tokens, currentIndex, now, ticks, rr, sw, demoted, mon, undecryptable, cache, cm, mig, cb, runs, strm, srv>>

---------------------------------------------------------------------------
(* AutoSwitchService.  A score is an exact fraction num/den with den > 0.   *)

R(n, d) == [num |-> n, den |-> d]
Greater(x, y) == x.num * y.den > y.num * x.den
AtMost(x, y) == x.num * y.den <= y.num * x.den
PlusInt(x, k) == R(x.num + k * x.den, x.den)
LessInt(x, k) == x.num < k * x.den

\* Math.min(100, Math.max(0, score))
Clamp(x) == IF x.num < 0 THEN R(0, 1)
            ELSE IF x.num > MaxScore * x.den THEN R(MaxScore, 1) ELSE x

RECURSIVE SumSeq(_)
SumSeq(s) == IF s = <<>> THEN 0 ELSE Head(s) + SumSeq(Tail(s))

StatusBonus(status) == IF status = "active" THEN ActiveBonus
                       ELSE IF status = "refreshing" THEN RefreshingBonus ELSE 0

\* Mutant of calculateHealthScore: the status is not tested before the quota.
calculateHealthScoreAnyStatus(account) ==
    IF ~account.quota.present THEN R(0, 1)
    ELSE IF account.quota.models = <<>> THEN R(0, 1)
    ELSE LET n == Len(account.quota.models)
             sum == SumSeq(account.quota.models)
         IN  Clamp(R(QuotaWeight * sum + 100 * n * StatusBonus(account.status), 100 * n))

\* (avgQuota / 100) * 60 plus the bonus of the status, clamped to 0..100.
calculateHealthScore(account) ==
    IF ~account.quota.present THEN R(0, 1)
    ELSE IF account.status \in {"rate_limited", "error"} THEN R(0, 1)
    ELSE IF account.quota.models = <<>> THEN R(0, 1)
    ELSE LET n == Len(account.quota.models)
             sum == SumSeq(account.quota.models)
         IN  Clamp(R(QuotaWeight * sum + 100 * n * StatusBonus(account.status), 100 * n))

\* Mutant of the guard: every candidate passes.
PassesNoHysteresis(score, currentScore) == TRUE

\* c.score > currentScore + this.HYSTERESIS_THRESHOLD
PassesHysteresis(score, currentScore) ==
    Greater(score, PlusInt(currentScore, HYSTERESIS_THRESHOLD))

\* The two filters of findBestAccount (lines 42-48).
Candidates(rows, currentAccountId, currentScore) ==
    LET Test(acc) == /\ acc.id # currentAccountId
                     /\ acc.status = "active"
                     /\ PassesHysteresis(calculateHealthScore(acc), currentScore)
    IN  SelectSeq(rows, Test)

\* Mutant of the choice: the candidates are not sorted.
BestOfUnsorted(cands) == cands[1]

\* candidates.sort((a, b) => b.score - a.score)[0]: the first row of highest score.
BestOf(cands) ==
    LET i == CHOOSE j \in DOMAIN cands :
                /\ \A k \in DOMAIN cands :
                      ~Greater(calculateHealthScore(cands[k]), calculateHealthScore(cands[j]))
                /\ \A k \in 1..(j - 1) :
                      Greater(calculateHealthScore(cands[j]), calculateHealthScore(cands[k]))
    IN  cands[i]

\* currentScore < 10 || status is rate_limited or error
isCritical(account, currentScore) ==
    \/ LessInt(currentScore, CriticalScore)
    \/ account.status \in {"rate_limited", "error"}

\* accounts.find((a) => a.is_active)
FirstActive(rows) ==
    rows[CHOOSE j \in DOMAIN rows :
            rows[j].is_active /\ \A k \in 1..(j - 1) : ~rows[k].is_active]

\* switchCloudAccount(id) of ipc/cloud/handler: setActive(candidate).
switchCloudAccount(rows, id) == SetActiveRows(rows, id)

NoRow == Account("none", FALSE, NoToken, NoQuota, 0, "none", <<>>)

\* pc: idle, reading (await getAccounts, line 61), finding (await getAccounts,
\* line 40), switching (await switchCloudAccount, line 77), done.
\* direct: findBestAccount was called on its own.
SwIdle == [pc |-> "idle", snap |-> <<>>, currentAccountId |-> "none",
           currentScore |-> R(0, 1), found |-> FALSE, next |-> NoRow,
           direct |-> FALSE, result |-> FALSE]

SwDone(result) == [SwIdle EXCEPT !.pc = "done", !.result = result]

\* Lines 58-61.
checkAndSwitchIfNeeded ==
    /\ sw.pc \in {"idle", "done"}
    /\ sw' = IF ~settings.auto_switch_enabled THEN SwDone(FALSE)
             ELSE [SwIdle EXCEPT !.pc = "reading", !.snap = getAccounts]
    /\ UNCHANGED <<accounts, settings, tokens, currentIndex, cooldowns, now, ticks, gn, rr, req, demoted, mon, undecryptable, cache, cm, mig, cb, runs, strm, srv>>

\* Lines 62-72 and the read of findBestAccount (line 40).
SW_Read ==
    /\ sw.pc = "reading"
    /\ sw' = IF ActiveRows(sw.snap) = {} THEN SwDone(FALSE)
             ELSE LET currentAccount == FirstActive(sw.snap)
                      currentScore == calculateHealthScore(currentAccount)
                  IN  IF isCritical(currentAccount, currentScore)
                      THEN [sw EXCEPT !.pc = "finding", !.snap = getAccounts,
                                      !.currentAccountId = currentAccount.id,
                                      !.currentScore = currentScore]
                      ELSE SwDone(FALSE)
    /\ UNCHANGED <<accounts, settings, tokens, currentIndex, cooldowns, now, ticks, gn, rr, req, demoted, mon, undecryptable, cache, cm, mig, cb, runs, strm, srv>>

\* findBestAccount called on its own (line 39-40).
findBestAccount(currentAccountId, currentScore) ==
    /\ sw.pc \in {"idle", "done"}
    /\ sw' = [SwIdle EXCEPT !.pc = "finding", !.snap = getAccounts, !.direct = TRUE,
                            !.currentAccountId = currentAccountId,
                            !.currentScore = currentScore]
    /\ UNCHANGED <<accounts, settings, tokens, currentIndex, cooldowns, now, ticks, gn, rr, req, demoted, mon, undecryptable, cache, cm, mig, cb, runs, strm, srv>>

\* Lines 42-51, then lines 73-77 or 83-88.
SW_Found ==
    /\ sw.pc = "finding"
    /\ LET cands == Candidates(sw.snap, sw.currentAccountId, sw.currentScore)
       IN  sw' = IF cands = <<>> THEN [sw EXCEPT !.pc = "done", !.snap = <<>>]
                 ELSE [sw EXCEPT !.pc = IF sw.direct THEN "done" ELSE "switching",
                                 !.snap = <<>>, !.found = TRUE, !.next = BestOf(cands)]
    /\ UNCHANGED <<accounts, settings, tokens, currentIndex, cooldowns, now, ticks, gn, rr, req, demoted, mon, undecryptable, cache, cm, mig, cb, runs, strm, srv>>

\* switchCloudAccount resumes (lines 77-82).
SW_Switched ==
    /\ sw.pc = "switching"
    /\ accounts' = switchCloudAccount(accounts, sw.next.id)
    /\ demoted' = ActiveIds(accounts) \ {sw.next.id}
    /\ sw' = [sw EXCEPT !.pc = "done", !.result = TRUE]
    /\ UNCHANGED <<settings, tokens, currentIndex, cooldowns, now, ticks, gn, rr, req, mon, undecryptable, cache, cm, mig, cb, runs, strm, srv>>

\* UPDATE accounts SET quota_json = encrypt(JSON.stringify(quota)): the field
\* is stored encrypted from now on.
updateQuota(id, quota) ==
    /\ accounts' = [i \in DOMAIN accounts |->
                      IF accounts[i].id = id
                      THEN [accounts[i] EXCEPT !.quota = quota]
                      ELSE accounts[i]]
    /\ demoted' = {}
    /\ mig' = [mig EXCEPT !.plain = IF HasId(accounts, id) THEN @ \ {<<id, "quota">>} ELSE @]
    /\ UNCHANGED <<settings, tokens, currentIndex, cooldowns, now, ticks, gn, rr, req, sw, mon, undecryptable, cache, cm, cb, runs, strm, srv>>

setSetting(value) ==
    /\ settings' = [settings EXCEPT !.auto_switch_enabled = value]
    /\ UNCHANGED <<accounts, tokens, currentIndex, cooldowns, now, ticks, gn, rr, req, sw, demoted, mon, undecryptable, cache, cm, mig, cb, runs, strm, srv>>

---------------------------------------------------------------------------
(* CloudMonitorService and the Semaphore of utils/resilience.  A poll is    *)
(* either the timer's (start and setInterval) or a forced one; each account *)
(* a poll read is one task, named by the poll and its position.             *)

PollIds == {"scheduled", "forced"}

\* An error thrown by the Google API: the HTTP status and the message's words.
MonError(status, message) == [status |-> status, message |-> message]
NoMonError == MonError(0, <<>>)
ErrHttp429 == MonError(429, <<"Too Many Requests">>)
ErrMsg429 == MonError(0, <<"quota", "429">>)
ErrNetwork == MonError(0, <<"ETIMEDOUT">>)

\* error.response?.status === 429 || error.message?.includes('429')
isRateLimit(error) ==
    \/ error.status = 429
    \/ \E k \in DOMAIN error.message : error.message[k] = "429"

\* pc of a task: queued (in Semaphore.queue), acquired (permit held, the task
\* function not called yet), status (await line 56), refresh (line 62),
\* saveToken (line 66), quota (line 71), saveQuota (line 74), setActive (line 75),
\* limited (line 86), failed (line 92), backoff (line 96), finished (processAccount
\* is over, release is due), settled.  tries counts the entries of the try block,
\* error is the error caught last.
Task(account) == [id |-> account.id, token |-> account.token, pc |-> "queued",
                  attempt |-> 0, tries |-> 0, error |-> NoMonError]

ExecutingPcs == {"status", "refresh", "saveToken", "quota", "saveQuota",
                 "setActive", "limited", "failed", "backoff"}

\* pc of a poll: idle, reading (await getAccounts, line 35), waiting (await
\* Promise.allSettled, line 43), checking (await checkAndSwitchIfNeeded, line 46),
\* done, failed (the promise of poll() was rejected and logged).
PollIdle == [pc |-> "idle", snap |-> <<>>, now |-> 0, tasks |-> <<>>]

NewSemaphore == [activeCount |-> 0, queue |-> <<>>]

MonIdle == [intervalId |-> FALSE, semaphore |-> NewSemaphore,
            polls |-> [P \in PollIds |-> PollIdle]]

\* Mutant of the test in acquire: one permit too many.
HasPermitLoose(sem) == sem.activeCount <= MaxConcurrency

\* this.activeCount < this.maxConcurrency
HasPermit(sem) == sem.activeCount < MaxConcurrency

\* Semaphore.acquire for the task named t: a permit, or a place in the queue.
acquire(sem, t) ==
    IF HasPermit(sem) THEN [sem EXCEPT !.activeCount = @ + 1]
    ELSE [sem EXCEPT !.queue = Append(@, t)]

\* Mutant of release: the permit goes to the caller that queued last.
releaseLast(sem) ==
    IF sem.queue # <<>>
    THEN [activeCount |-> (sem.activeCount - 1) + 1,
          queue |-> SubSeq(sem.queue, 1, Len(sem.queue) - 1)]
    ELSE [sem EXCEPT !.activeCount = @ - 1]

\* Semaphore.release: the permit goes to the head of the queue, if any.
release(sem) ==
    IF sem.queue # <<>>
    THEN [activeCount |-> (sem.activeCount - 1) + 1, queue |-> Tail(sem.queue)]
    ELSE [sem EXCEPT !.activeCount = @ - 1]

\* accounts.map((account) => this.semaphore.run(...)): the tasks of poll P are
\* created in the order of the rows, each calling acquire at once.
RECURSIVE Scheduled(_, _, _, _)
Scheduled(P, rows, sem, tasks) ==
    IF Len(tasks) = Len(rows) THEN [semaphore |-> sem, tasks |-> tasks]
    ELSE LET i == Len(tasks) + 1
             granted == HasPermit(sem)
             task == [Task(rows[i]) EXCEPT !.pc = IF granted THEN "acquired" ELSE "queued"]
         IN  Scheduled(P, rows, acquire(sem, <<P, i>>), Append(tasks, task))

TaskOf(m, t) == m.polls[t[1]].tasks[t[2]]

TaskNames(m) == {t \in PollIds \X (1..Cardinality(Ids)) :
                    t[2] \in DOMAIN m.polls[t[1]].tasks}

\* The tasks inside processAccount.
Executing(m) == {t \in TaskNames(m) : TaskOf(m, t).pc \in ExecutingPcs}

\* UPDATE accounts SET status = ? WHERE id = ?
updateAccountStatus(rows, id, status) ==
    [k \in DOMAIN rows |-> IF rows[k].id = id THEN [rows[k] EXCEPT !.status = status]
                           ELSE rows[k]]

\* UPDATE accounts SET quota_json = ? WHERE id = ?
UpdateQuotaRows(rows, id, quota) ==
    [k \in DOMAIN rows |-> IF rows[k].id = id THEN [rows[k] EXCEPT !.quota = quota]
                           ELSE rows[k]]

\* poll() is called: line 35 reads the store.
PollCalled(m, P) == [m EXCEPT !.polls[P] = [PollIdle EXCEPT !.pc = "reading",
                                                            !.snap = getAccounts]]

PollFree(m, P) == m.polls[P].pc \in {"idle", "done", "failed"}

MonFrame ==
    UNCHANGED <<settings, tokens, currentIndex, cooldowns, now, ticks, gn, rr, req,
                undecryptable, cache, cm, mig, cb, runs, strm, srv>>

\* CloudMonitorService.start: the initial poll and the timer.
start ==
    /\ ~mon.intervalId
    /\ PollFree(mon, "scheduled")
    /\ mon' = [PollCalled(mon, "scheduled") EXCEPT !.intervalId = TRUE]
    /\ UNCHANGED <<accounts, sw, demoted>>
    /\ MonFrame

\* CloudMonitorService.stop
stop ==
    /\ mon.intervalId
    /\ mon' = [mon EXCEPT !.intervalId = FALSE]
    /\ UNCHANGED <<accounts, sw, demoted>>
    /\ MonFrame

\* The callback of setInterval (lines 20-22).
IntervalFired ==
    /\ mon.intervalId
    /\ PollFree(mon, "scheduled")
    /\ mon' = PollCalled(mon, "scheduled")
    /\ UNCHANGED <<accounts, sw, demoted>>
    /\ MonFrame

\* forcePollCloudMonitor of ipc/cloud/handler: poll() on request.
forcePoll ==
    /\ PollFree(mon, "forced")
    /\ mon' = PollCalled(mon, "forced")
    /\ UNCHANGED <<accounts, sw, demoted>>
    /\ MonFrame

\* getAccounts resumes with the rows (lines 36-43).
Poll_Read(P) ==
    /\ mon.polls[P].pc = "reading"
    /\ LET rows == mon.polls[P].snap
           sch == Scheduled(P, rows, mon.semaphore, <<>>)
       IN  mon' = [mon EXCEPT !.semaphore = sch.semaphore,
                              !.polls[P] = [pc |-> "waiting", snap |-> <<>>,
                                            now |-> now \div 1000, tasks |-> sch.tasks]]
    /\ UNCHANGED <<accounts, sw, demoted>>
    /\ MonFrame

\* getAccounts throws: poll() rejects and the caller's catch logs it (lines 18, 21).
Poll_Failed(P) ==
    /\ mon.polls[P].pc = "reading"
    /\ mon' = [mon EXCEPT !.polls[P] = [PollIdle EXCEPT !.pc = "failed"]]
    /\ UNCHANGED <<accounts, sw, demoted>>
    /\ MonFrame

\* Mutant of the wait: Promise.all, which a task that met an error would reject.
AllFulfilled(poll) ==
    \A i \in DOMAIN poll.tasks :
        poll.tasks[i].pc = "settled" /\ poll.tasks[i].error = NoMonError

AllSettled(poll) == \A i \in DOMAIN poll.tasks : poll.tasks[i].pc = "settled"

\* Promise.allSettled resumes; checkAndSwitchIfNeeded is called (lines 43-46, 58-61).
Poll_Settled(P) ==
    /\ mon.polls[P].pc = "waiting"
    /\ AllSettled(mon.polls[P])
    /\ sw.pc \in {"idle", "done"}
    /\ \A Q \in PollIds : mon.polls[Q].pc # "checking"
    /\ sw' = IF ~settings.auto_switch_enabled THEN SwDone(FALSE)
             ELSE [SwIdle EXCEPT !.pc = "reading", !.snap = getAccounts]
    /\ mon' = [mon EXCEPT !.polls[P].pc = "checking"]
    /\ UNCHANGED <<accounts, demoted>>
    /\ MonFrame

\* checkAndSwitchIfNeeded resumes: poll() is over (line 47).
Poll_Checked(P) ==
    /\ mon.polls[P].pc = "checking"
    /\ sw.pc = "done"
    /\ mon' = [mon EXCEPT !.polls[P] = [PollIdle EXCEPT !.pc = "done"]]
    /\ UNCHANGED <<accounts, sw, demoted>>
    /\ MonFrame

\* The inputs of a task: what refreshAccessToken and fetchQuota answer.
MonRefreshOk(access, expiresIn) ==
    [ok |-> TRUE, access_token |-> access, expires_in |-> expiresIn, error |-> NoMonError]
MonFetchOk(quota) == [ok |-> TRUE, quota |-> quota, error |-> NoMonError]
MonRefreshErr(error) ==
    [ok |-> FALSE, access_token |-> "none", expires_in |-> 0, error |-> error]
MonFetchErr(error) == [ok |-> FALSE, quota |-> NoQuota, error |-> error]

SetTask(m, t, task) == [m EXCEPT !.polls[t[1]].tasks[t[2]] = task]

\* account.token.expiry_timestamp < now + 600
MonitorNeedsRefresh(nowS, token) == token.expiry_timestamp < nowS + MonitorRefreshMarginS

\* Mutant of the loop test: one more attempt.
RetriesLeftOneMore(attempt) == attempt <= MAX_RETRIES

\* while (attempt < MAX_RETRIES)
RetriesLeft(attempt) == attempt < MAX_RETRIES

\* attempt >= MAX_RETRIES (line 90)
FinalFailure(attempt) == attempt >= MAX_RETRIES

\* The catch block (lines 81-97): the task after the error, and the status it
\* writes ("none": no write).
Caught(task, error) ==
    LET n == task.attempt + 1
        limited == isRateLimit(error)
    IN  [task |-> [task EXCEPT !.attempt = n, !.error = error,
                               !.pc = IF limited THEN "limited"
                                      ELSE IF FinalFailure(n) THEN "failed"
                                      ELSE "backoff"],
         status |-> IF limited THEN "rate_limited"
                    ELSE IF FinalFailure(n) THEN "error" ELSE "none"]

WriteStatus(rows, id, status) ==
    IF status = "none" THEN rows ELSE updateAccountStatus(rows, id, status)

\* The head of the loop (lines 53-56): the status is set to refreshing.
Attempt(t) ==
    LET task == TaskOf(mon, t)
    IN  /\ accounts' = updateAccountStatus(accounts, task.id, "refreshing")
        /\ mon' = SetTask(mon, t, [task EXCEPT !.pc = "status", !.tries = @ + 1])

\* The permit is held: processAccount is called (lines 50-56).
PA_Start(t) ==
    /\ t \in TaskNames(mon)
    /\ TaskOf(mon, t).pc = "acquired"
    /\ Attempt(t)
    /\ demoted' = {}
    /\ UNCHANGED sw
    /\ MonFrame

\* updateAccountStatus('refreshing') resumes (lines 59-62, or 71).
PA_StatusSet(t) ==
    /\ t \in TaskNames(mon)
    /\ TaskOf(mon, t).pc = "status"
    /\ LET task == TaskOf(mon, t)
           nowS == mon.polls[t[1]].now
       IN  mon' = SetTask(mon, t,
                     [task EXCEPT !.pc = IF MonitorNeedsRefresh(nowS, task.token)
                                         THEN "refresh" ELSE "quota"])
    /\ UNCHANGED <<accounts, sw, demoted>>
    /\ MonFrame

\* refreshAccessToken resumes (lines 63-66) or throws (lines 80-97).
PA_Refreshed(t, out) ==
    /\ t \in TaskNames(mon)
    /\ TaskOf(mon, t).pc = "refresh"
    /\ LET task == TaskOf(mon, t)
           nowS == mon.polls[t[1]].now
           c == Caught(task, out.error)
       IN  IF out.ok
           THEN /\ mon' = SetTask(mon, t,
                             [task EXCEPT !.pc = "saveToken",
                                          !.token = [@ EXCEPT
                                              !.access_token = out.access_token,
                                              !.expires_in = out.expires_in,
                                              !.expiry_timestamp = nowS + out.expires_in]])
                /\ accounts' = accounts
           ELSE /\ mon' = SetTask(mon, t, c.task)
                /\ accounts' = WriteStatus(accounts, task.id, c.status)
    /\ demoted' = {}
    /\ UNCHANGED sw
    /\ MonFrame

\* updateToken writes account.token (line 66); fetchQuota is called (line 71).
PA_TokenSaved(t) ==
    /\ t \in TaskNames(mon)
    /\ TaskOf(mon, t).pc = "saveToken"
    /\ LET task == TaskOf(mon, t)
       IN  /\ accounts' = UpdateTokenRows(accounts, task.id, task.token)
           /\ mon' = SetTask(mon, t, [task EXCEPT !.pc = "quota"])
    /\ demoted' = {}
    /\ UNCHANGED sw
    /\ MonFrame

\* fetchQuota resumes (line 74) or throws (lines 80-97).
PA_Fetched(t, out) ==
    /\ t \in TaskNames(mon)
    /\ TaskOf(mon, t).pc = "quota"
    /\ LET task == TaskOf(mon, t)
           c == Caught(task, out.error)
       IN  IF out.ok
           THEN /\ mon' = SetTask(mon, t, [task EXCEPT !.pc = "saveQuota"])
                /\ accounts' = accounts
           ELSE /\ mon' = SetTask(mon, t, c.task)
                /\ accounts' = WriteStatus(accounts, task.id, c.status)
    /\ demoted' = {}
    /\ UNCHANGED sw
    /\ MonFrame

\* updateQuota writes the quota (line 74); the status is set to active (line 75).
PA_QuotaSaved(t, quota) ==
    /\ t \in TaskNames(mon)
    /\ TaskOf(mon, t).pc = "saveQuota"
    /\ LET task == TaskOf(mon, t)
       IN  /\ accounts' = updateAccountStatus(UpdateQuotaRows(accounts, task.id, quota),
                                              task.id, "active")
           /\ mon' = SetTask(mon, t, [task EXCEPT !.pc = "setActive"])
    /\ demoted' = {}
    /\ UNCHANGED sw
    /\ MonFrame

\* The last await of processAccount resumes: return after success (line 78) or
\* after a rate limit (line 87).
PA_Returned(t) ==
    /\ t \in TaskNames(mon)
    /\ TaskOf(mon, t).pc \in {"setActive", "limited"}
    /\ mon' = SetTask(mon, t, [TaskOf(mon, t) EXCEPT !.pc = "finished"])
    /\ UNCHANGED <<accounts, sw, demoted>>
    /\ MonFrame

\* exponentialBackoff (line 96) or the status write of the final failure (line 92)
\* resumes: the loop test, then the next attempt (lines 53-56) or the end.
PA_Looped(t) ==
    /\ t \in TaskNames(mon)
    /\ TaskOf(mon, t).pc \in {"backoff", "failed"}
    /\ IF RetriesLeft(TaskOf(mon, t).attempt)
       THEN Attempt(t)
       ELSE /\ mon' = SetTask(mon, t, [TaskOf(mon, t) EXCEPT !.pc = "finished"])
            /\ accounts' = accounts
    /\ demoted' = {}
    /\ UNCHANGED sw
    /\ MonFrame

\* The finally of Semaphore.run (line 136): release, and the head of the queue
\* is resumed with the permit.
Sem_Released(t) ==
    /\ t \in TaskNames(mon)
    /\ TaskOf(mon, t).pc = "finished"
    /\ LET sem == mon.semaphore
           m1 == SetTask(mon, t, [TaskOf(mon, t) EXCEPT !.pc = "settled"])
           m2 == [m1 EXCEPT !.semaphore = release(sem)]
       IN  mon' = IF sem.queue # <<>>
                  THEN SetTask(m2, Head(sem.queue),
                               [TaskOf(m2, Head(sem.queue)) EXCEPT !.pc = "acquired"])
                  ELSE m2
    /\ UNCHANGED <<accounts, sw, demoted>>
    /\ MonFrame

---------------------------------------------------------------------------
(* SSE streams.  A text is a sequence of words.  The upstream (a Node       *)
(* stream) delivers chunks and then ends or fails; a chunk is one complete  *)
(* line, or a fragment of a line that stays in the translator's buffer.     *)
(* A subscriber is the rxjs Subscriber of one subscription of the           *)
(* Observable a processor returns, with the processor's local variables.    *)

Line(kind, text, finish) == [kind |-> kind, text |-> text, finish |-> finish]
\* data: {"candidates":[{"content":{"parts":[{"text":"Hello"}]}}]}
LineText == Line("json", <<"Hello">>, "none")
\* data: {"candidates":[{"content":{"parts":[{"text":"world"}]},"finishReason":"STOP"}]}
LineFinish == Line("json", <<"world">>, "STOP")
\* data: {"usageMetadata":{...}}: no candidate
LineMeta == Line("json", <<>>, "none")
\* data: [DONE]
LineDone == Line("done", <<>>, "none")
\* data: {"candidates":[   (JSON.parse throws)
LineBad == Line("bad", <<>>, "none")
\* a chunk without a newline
LineFragment == Line("fragment", <<>>, "none")

Event(type, text, finish) == [type |-> type, text |-> text, finish |-> finish]
EmptyStreamError == <<"Empty response stream">>
UpstreamError == <<"socket hang up">>

\* status: open, complete, error (closed by the processor), unsubscribed
\* (closed by the consumer).  out: what next() delivered.  errors: how many
\* error notifications were delivered.
NewSubscriber ==
    [status |-> "open", out |-> <<>>, error |-> NoError, errors |-> 0,
     buffered |-> FALSE, receivedData |-> FALSE, started |-> FALSE,
     blockOpen |-> FALSE, lastFinishReason |-> "none"]
NoSubscriber == [NewSubscriber EXCEPT !.status = "none"]

\* subscriber.next(c), once per element of chunks: dropped once the subscriber is closed.
SubNext(s, chunks) == IF s.status = "open" THEN [s EXCEPT !.out = @ \o chunks] ELSE s
\* subscriber.complete()
SubComplete(s) == IF s.status = "open" THEN [s EXCEPT !.status = "complete"] ELSE s
\* subscriber.error(e)
SubError(s, e) ==
    IF s.status = "open" THEN [s EXCEPT !.status = "error", !.error = e, !.errors = @ + 1]
    ELSE s

\* buffer += chunk; lines = buffer.split('\n'); buffer = lines.pop(): a line that
\* follows a fragment is the fragment and the line, which does not start with
\* 'data: '; a line 'data: [DONE]' is skipped as well.
Parsed(s, line) ==
    IF line.kind = "fragment" THEN "none"
    ELSE IF s.buffered \/ line.kind = "done" THEN "none"
    ELSE line.kind

\* StreamingState.emitMessageStart: message_start, once.
emitMessageStart(s) ==
    IF s.started THEN <<>> ELSE <<Event("message_start", <<>>, "none")>>

\* PartProcessor.process of a text part: the text block is opened by the first one.
process(s, text) ==
    (IF s.blockOpen THEN <<>> ELSE <<Event("content_block_start", <<>>, "none")>>)
        \o <<Event("content_block_delta", text, "none")>>

\* StreamingState.handleParseError: a best-effort error event.
handleParseError == <<Event("error", <<>>, "none")>>

\* StreamingState.emitFinish: the open block is closed, then message_delta
\* with the stop reason and message_stop.
emitFinish(s) ==
    (IF s.blockOpen THEN <<Event("content_block_stop", <<>>, "none")>> ELSE <<>>)
        \o <<Event("message_delta", <<>>,
                   IF s.lastFinishReason = "none" THEN "end_turn" ELSE s.lastFinishReason),
             Event("message_stop", <<>>, "none")>>

\* processAnthropicInternalStream, upstreamStream.on('data') (lines 207-239).
AnthropicData(s, line) ==
    LET s1 == [s EXCEPT !.receivedData = TRUE, !.buffered = (line.kind = "fragment")]
        kind == Parsed(s, line)
    IN  IF kind = "json"
        THEN LET s2 == SubNext(s1, emitMessageStart(s1))
                 s3 == [s2 EXCEPT !.started = TRUE,
                                  !.lastFinishReason =
                                      IF line.finish # "none" THEN line.finish ELSE @]
             IN  IF line.text # <<>>
                 THEN [SubNext(s3, process(s3, line.text)) EXCEPT !.blockOpen = TRUE]
                 ELSE s3
        ELSE IF kind = "bad" THEN SubNext(s1, handleParseError)
        ELSE s1

\* Mutant of the end handler: the stream is finished whether data came or not.
AnthropicEndNoCheck(s) == SubComplete(SubNext(s, emitFinish(s)))

\* processAnthropicInternalStream, upstreamStream.on('end') (lines 241-249).
AnthropicEnd(s) ==
    IF ~s.receivedData THEN SubError(s, EmptyStreamError)
    ELSE SubComplete(SubNext(s, emitFinish(s)))

\* processAnthropicInternalStream, upstreamStream.on('error') (lines 251-256):
\* formatErrorForSSE, then the error.
AnthropicError(s, e) == SubError(SubNext(s, <<Event("error", e, "none")>>), e)

\* finishReason?.toLowerCase() || null
LowerFinish(finish) == IF finish = "STOP" THEN "stop" ELSE finish

\* processOpenAIStream, upstreamStream.on('data') (lines 267-301).
OpenAIData(s, line) ==
    LET s1 == [s EXCEPT !.receivedData = TRUE, !.buffered = (line.kind = "fragment")]
    IN  IF Parsed(s, line) = "json"
        THEN LET s2 == IF line.text # <<>> \/ line.finish # "none"
                       THEN SubNext(s1, <<Event("chat.completion.chunk", line.text,
                                                LowerFinish(line.finish))>>)
                       ELSE s1
             IN  IF line.finish # "none"
                 THEN SubComplete(SubNext(s2, <<Event("[DONE]", <<>>, "none")>>))
                 ELSE s2
        ELSE s1

\* processOpenAIStream, upstreamStream.on('end') (line 303).
OpenAIEnd(s) == SubComplete(s)

\* processOpenAIStream, upstreamStream.on('error') (line 304).
OpenAIError(s, e) == SubError(s, e)

\* Mutant of createMockStream: the terminal event of either flavour is left out.
createMockStreamNoStop(content, isAnthropic) ==
    SubComplete(SubNext(NewSubscriber,
        IF isAnthropic
        THEN <<Event("message_start", <<>>, "none"),
               Event("content_block_start", <<>>, "none"),
               Event("content_block_delta", content, "none"),
               Event("content_block_stop", <<>>, "none"),
               Event("message_delta", <<>>, "end_turn")>>
        ELSE <<Event("chat.completion.chunk", content, "stop")>>))

\* SemanticCacheManager.createMockStream: the events of one subscription.
createMockStream(content, isAnthropic) ==
    SubComplete(SubNext(NewSubscriber,
        IF isAnthropic
        THEN <<Event("message_start", <<>>, "none"),
               Event("content_block_start", <<>>, "none"),
               Event("content_block_delta", content, "none"),
               Event("content_block_stop", <<>>, "none"),
               Event("message_delta", <<>>, "end_turn"),
               Event("message_stop", <<>>, "none")>>
        ELSE <<Event("chat.completion.chunk", content, "stop"),
               Event("[DONE]", <<>>, "none")>>))

---------------------------------------------------------------------------
(* Semantic cache: SemanticCacheRepo over the table and SemanticCacheManager.*)
(* A prompt is a sequence of symbols, " " being white space; an embedding   *)
(* is a sequence of integers in tenths, so that a dot product is in         *)
(* hundredths.                                                              *)

NoText == [some |-> FALSE, text |-> <<>>]       \* null
SomeText(text) == [some |-> TRUE, text |-> text]
\* if (exactHit), if (semanticHit), if (cachedResponse): a non-empty string
Truthy(r) == r.some /\ r.text # <<>>

RECURSIVE TrimStart(_)
TrimStart(text) ==
    IF text # <<>> /\ Head(text) = " " THEN TrimStart(Tail(text)) ELSE text

RECURSIVE TrimEnd(_)
TrimEnd(text) ==
    IF text # <<>> /\ text[Len(text)] = " "
    THEN TrimEnd(SubSeq(text, 1, Len(text) - 1)) ELSE text

\* generateHash: the digest of text.trim(); two texts have the same digest when
\* their trimmed texts are equal.
generateHash(text) == TrimEnd(TrimStart(text))

CacheRow(prompt, embedding, response) ==
    [prompt_hash |-> generateHash(prompt), prompt_text |-> prompt,
     embedding |-> embedding, response_text |-> response]

\* SemanticCacheRepo.save: INSERT OR REPLACE under a fresh id, which adds a row.
save(rows, prompt, embedding, response) ==
    Append(rows, CacheRow(prompt, embedding, response))

\* The first row a test selects, or null.
FirstResponse(rows, Test(_)) ==
    IF \E i \in DOMAIN rows : Test(rows[i])
    THEN LET i == CHOOSE j \in DOMAIN rows :
                     Test(rows[j]) /\ \A k \in 1..(j - 1) : ~Test(rows[k])
         IN  SomeText(rows[i].response_text)
    ELSE NoText

\* SELECT response_text FROM semantic_cache WHERE prompt_hash = ?  (.get)
findExact(rows, prompt) ==
    LET Test(row) == row.prompt_hash = generateHash(prompt)
    IN  FirstResponse(rows, Test)

RECURSIVE Dot(_, _)
Dot(a, b) == IF a = <<>> THEN 0 ELSE Head(a) * Head(b) + Dot(Tail(a), Tail(b))

\* cosineSimilarity: the dot product, 0 for vectors of different lengths.
cosineSimilarity(a, b) == IF Len(a) # Len(b) THEN 0 ELSE Dot(a, b)

\* similarity >= threshold
Qualifies(similarity) == similarity >= SimilarityThreshold

\* SemanticCacheRepo.findSemantic
findSemantic(rows, queryEmbedding) ==
    LET Test(row) == Qualifies(cosineSimilarity(queryEmbedding, row.embedding))
    IN  FirstResponse(rows, Test)

\* The outcome of GoogleAPIService.fetchEmbedding: a vector, or a failure.
EmbeddingFailed == <<>>

\* SemanticCacheManager.findResponse after fetchEmbedding (lines 20-29).
SemanticResponse(rows, embedding) ==
    IF embedding = EmbeddingFailed THEN NoText
    ELSE LET semanticHit == findSemantic(rows, embedding)
         IN  IF Truthy(semanticHit) THEN semanticHit ELSE NoText

\* One activation of findResponse and one of captureAndStore.  ret is what
\* findResponse returned, threw that it threw instead; embedding is what
\* fetchEmbedding gave it.
FindIdle ==
    [pc |-> "idle", prompt |-> <<>>, embedding |-> EmbeddingFailed, ret |-> NoText,
     threw |-> FALSE]
CaptureIdle == [pc |-> "idle", prompt |-> <<>>, response |-> <<>>]
CmIdle == [find |-> FindIdle, capture |-> CaptureIdle]

CmFrame ==
    UNCHANGED <<accounts, settings, tokens, currentIndex, cooldowns, now, ticks, gn, rr,
                req, sw, demoted, mon, undecryptable, mig, cb, runs, strm, srv>>

\* findResponse(prompt, accessToken) up to its await of fetchEmbedding (lines
\* 10-20): the exact hit, or the exception of findExact when the statement
\* fails (storeOk is false).
findResponse(prompt, storeOk) ==
    /\ cm.find.pc \in {"idle", "done"}
    /\ LET exactHit == findExact(cache, prompt)
           f == [FindIdle EXCEPT !.prompt = prompt]
       IN  cm' = [cm EXCEPT !.find =
                    IF ~storeOk THEN [f EXCEPT !.pc = "done", !.threw = TRUE]
                    ELSE IF Truthy(exactHit) THEN [f EXCEPT !.pc = "done", !.ret = exactHit]
                    ELSE [f EXCEPT !.pc = "embedding"]]
    /\ UNCHANGED cache
    /\ CmFrame

\* findResponse resumes after fetchEmbedding (lines 20-29).
Find_Embedded(embedding) ==
    /\ cm.find.pc = "embedding"
    /\ cm' = [cm EXCEPT !.find = [@ EXCEPT !.pc = "done", !.embedding = embedding,
                                           !.ret = SemanticResponse(cache, embedding)]]
    /\ UNCHANGED cache
    /\ CmFrame

\* captureAndStore(prompt, response, model, accessToken) up to its await of
\* fetchEmbedding (lines 35-37); the callers of the non-streaming branches pass
\* the response text as it is (proxy.service.ts lines 107-108, 181).
captureAndStore(prompt, response) ==
    /\ cm.capture.pc \in {"idle", "done"}
    /\ Len(cache) < MaxRows
    /\ cm' = [cm EXCEPT !.capture = [pc |-> "embedding", prompt |-> prompt,
                                     response |-> response]]
    /\ UNCHANGED cache
    /\ CmFrame

\* captureAndStore resumes after fetchEmbedding (lines 37-46): save, whose own
\* catch block swallows a failed INSERT (saveOk is false), or the catch block.
Capture_Embedded(embedding, saveOk) ==
    /\ cm.capture.pc = "embedding"
    /\ cm' = [cm EXCEPT !.capture.pc = "done"]
    /\ cache' = IF embedding # EmbeddingFailed /\ saveOk
                THEN save(cache, cm.capture.prompt, embedding, cm.capture.response)
                ELSE cache
    /\ CmFrame

---------------------------------------------------------------------------
(* A chat request with stream = true, and the stream it hands to the        *)
(* client.  source: upstream (Gemini), local (a local server) or cache (the *)
(* mock stream).  capture is the subscription of captureStreamOutput,       *)
(* client the subscription of the HTTP reply.                               *)

StrmIdle ==
    [source |-> "none", kind |-> "none", up |-> "none", chunks |-> 0,
     capture |-> NoSubscriber, client |-> NoSubscriber, prompt |-> <<>>,
     store |-> "none", disconnected |-> FALSE]

\* Lines 100-103 and 174-177: the processor's Observable is subscribed by
\* captureStreamOutput and returned to the controller, which sends it.
Opened(handler, prompt) ==
    [StrmIdle EXCEPT !.source = "upstream", !.kind = handler, !.up = "open",
                     !.capture = NewSubscriber, !.client = NewSubscriber,
                     !.prompt = prompt]

\* Lines 71-72 and 145-146: both handlers pass a local stream to processOpenAIStream.
LocalOpened == [StrmIdle EXCEPT !.source = "local", !.kind = "openai", !.up = "open",
                                !.client = NewSubscriber]

\* Lines 83 and 157.
Mock(handler, content) ==
    [StrmIdle EXCEPT !.source = "cache", !.kind = handler,
                     !.client = createMockStream(content, handler = "anthropic")]

\* The listeners of one subscription; a subscription that was not made has none.
OnData(kind, s, line) ==
    IF s.status = "none" THEN s
    ELSE IF kind = "anthropic" THEN AnthropicData(s, line) ELSE OpenAIData(s, line)
OnEnd(kind, s) ==
    IF s.status = "none" THEN s
    ELSE IF kind = "anthropic" THEN AnthropicEnd(s) ELSE OpenAIEnd(s)
OnError(kind, s, e) ==
    IF s.status = "none" THEN s
    ELSE IF kind = "anthropic" THEN AnthropicError(s, e) ELSE OpenAIError(s, e)

\* The bytes of an upstream stream, as a sequence of pieces: 'data: ', the
\* halves of a JSON text, '[DONE]', a comment, '\r' and '\n'.
NL == "\n"
CR == "\r"
BytesText == <<"data: ", "{text", "}">>
BytesFinish == <<"data: ", "{finish", "}">>
BytesMeta == <<"data: ", "{meta", "}">>
BytesDone == <<"data: ", "[DONE]">>
BytesBad == <<"data: ", "{text">>
BytesComment == <<": ping">>

\* buffer.split('\n'): the pieces between the newlines, cur being the piece so far.
RECURSIVE split(_, _)
split(bytes, cur) ==
    IF bytes = <<>> THEN <<cur>>
    ELSE IF Head(bytes) = NL THEN <<cur>> \o split(Tail(bytes), <<>>)
    ELSE split(Tail(bytes), Append(cur, Head(bytes)))

\* line.trim(): white space is removed at both ends.
RECURSIVE trim(_)
trim(line) ==
    IF line = <<>> THEN line
    ELSE IF Head(line) = CR THEN trim(Tail(line))
    ELSE IF line[Len(line)] = CR THEN trim(SubSeq(line, 1, Len(line) - 1))
    ELSE line

\* Lines 214-220 and 273-279: startsWith('data: '), slice(6), '[DONE]', JSON.parse.
LineOf(line) ==
    LET trimmed == trim(line)
        dataStr == Tail(trimmed)
    IN  IF trimmed = <<>> \/ Head(trimmed) # "data: " THEN Line("other", <<>>, "none")
        ELSE IF dataStr = <<"[DONE]">> THEN LineDone
        ELSE IF dataStr = <<"{text", "}">> THEN LineText
        ELSE IF dataStr = <<"{finish", "}">> THEN LineFinish
        ELSE IF dataStr = <<"{meta", "}">> THEN LineMeta
        ELSE LineBad

\* Mutant of the buffer: the part after the last newline is dropped.
NextBufferDropped(lines) == <<>>

\* buffer = lines.pop() || '' (lines 211 and 270).
NextBuffer(lines) == lines[Len(lines)]

\* for (const line of lines) of the data listeners, over whole lines.
RECURSIVE DataLines(_, _, _)
DataLines(kind, s, lines) ==
    IF lines = <<>> THEN s
    ELSE DataLines(kind, OnData(kind, [s EXCEPT !.buffered = FALSE], LineOf(Head(lines))),
                   Tail(lines))

\* The data listener of one subscription on a chunk of bytes (lines 207-239
\* and 267-301); buffer is the subscription's buffer before the chunk.
OnChunk(kind, s, buffer, chunk) ==
    LET lines == split(buffer \o chunk, <<>>)
        whole == SubSeq(lines, 1, Len(lines) - 1)
    IN  IF whole = <<>> THEN OnData(kind, s, LineFragment)
        ELSE [DataLines(kind, s, whole) EXCEPT !.buffered = (NextBuffer(lines) # <<>>)]

\* captureStreamOutput, next (lines 389-398): full += data.delta.text, or
\* data.choices[0].delta.content.
RECURSIVE CapturedText(_)
CapturedText(out) ==
    IF out = <<>> THEN <<>>
    ELSE (IF Head(out).type \in {"content_block_delta", "chat.completion.chunk"}
          THEN Head(out).text ELSE <<>>) \o CapturedText(Tail(out))

\* captureStreamOutput, complete (line 399): if (full) captureAndStore(...)
StoresOnComplete(st) ==
    /\ st.capture.status = "complete" /\ st.store = "none"
    /\ CapturedText(st.capture.out) # <<>>

\* captureAndStore runs up to its await of fetchEmbedding (line 37).
AfterCapture(st) == IF StoresOnComplete(st) THEN [st EXCEPT !.store = "embedding"] ELSE st

StrmFrame ==
    UNCHANGED <<accounts, settings, tokens, currentIndex, cooldowns, now, ticks, gn, rr,
                req, sw, demoted, mon, undecryptable, mig, cb, runs, srv>>

\* The upstream emits 'data'.
Up_Data(line) ==
    /\ strm.up = "open"
    /\ strm.chunks < MaxChunks
    /\ strm' = AfterCapture([strm EXCEPT !.chunks = @ + 1,
                                         !.capture = OnData(strm.kind, @, line),
                                         !.client = OnData(strm.kind, @, line)])
    /\ UNCHANGED <<cache, cm, mig, cb, runs>>
    /\ StrmFrame

\* The upstream emits 'end'.
Up_End ==
    /\ strm.up = "open"
    /\ strm' = AfterCapture([strm EXCEPT !.up = "ended",
                                         !.capture = OnEnd(strm.kind, @),
                                         !.client = OnEnd(strm.kind, @)])
    /\ UNCHANGED <<cache, cm, mig, cb, runs>>
    /\ StrmFrame

\* The upstream emits 'error'.
Up_Error ==
    /\ strm.up = "open"
    /\ strm' = AfterCapture([strm EXCEPT !.up = "errored",
                                         !.capture = OnError(strm.kind, @, UpstreamError),
                                         !.client = OnError(strm.kind, @, UpstreamError)])
    /\ UNCHANGED <<cache, cm, mig, cb, runs>>
    /\ StrmFrame

\* The upstream emits 'data' with the next n bytes of its stream.
Up_Chunk(n) ==
    /\ strm.up = "open"
    /\ strm.pos + n <= Len(strm.bytes)
    /\ LET chunk == SubSeq(strm.bytes, strm.pos + 1, strm.pos + n)
           buffer == NextBuffer(split(strm.buffer \o chunk, <<>>))
       IN  strm' = [strm EXCEPT !.pos = @ + n,
                                !.client = OnChunk(strm.kind, @, strm.buffer, chunk),
                                !.buffer = buffer,
                                !.cut = @ \/ (buffer # <<>> /\ strm.pos + n < Len(strm.bytes))]
    /\ UNCHANGED <<cache, cm, mig, cb, runs>>
    /\ StrmFrame

\* The upstream emits 'end' after the last byte.
Up_Finish ==
    /\ strm.up = "open"
    /\ strm.pos = Len(strm.bytes)
    /\ strm' = [strm EXCEPT !.up = "ended", !.client = OnEnd(strm.kind, @)]
    /\ UNCHANGED <<cache, cm, mig, cb, runs>>
    /\ StrmFrame

\* The client closes the connection while the reply is streaming: the reply's
\* subscription ends; the processors have no teardown and captureStreamOutput
\* keeps its own subscription.
Client_Disconnected ==
    /\ strm.client.status = "open"
    /\ strm' = [strm EXCEPT !.client.status = "unsubscribed", !.disconnected = TRUE]
    /\ UNCHANGED <<cache, cm, mig, cb, runs>>
    /\ StrmFrame

\* processAnthropicInternalStream(upstreamStream, model) is called and the
\* Observable it returns is subscribed (lines 197-206).
processAnthropicInternalStream ==
    /\ strm.up # "open" /\ strm.store # "embedding"
    /\ \A q \in Procs : req[q].pc \in {"idle", "finished"}
    /\ strm' = [StrmIdle EXCEPT !.source = "upstream", !.kind = "anthropic",
                                !.up = "open", !.client = NewSubscriber]
    /\ UNCHANGED <<cache, cm, mig, cb, runs>>
    /\ StrmFrame

\* processOpenAIStream(upstreamStream, model) is called and the Observable it
\* returns is subscribed (lines 260-265).
processOpenAIStream ==
    /\ strm.up # "open" /\ strm.store # "embedding"
    /\ \A q \in Procs : req[q].pc \in {"idle", "finished"}
    /\ strm' = LocalOpened
    /\ UNCHANGED <<cache, cm, mig, cb, runs>>
    /\ StrmFrame

\* captureAndStore resumes after fetchEmbedding (lines 37-46): save, or the
\* catch block.
Store_Embedded(embedding) ==
    /\ strm.store = "embedding"
    /\ IF embedding = EmbeddingFailed
       THEN /\ strm' = [strm EXCEPT !.store = "failed"]
            /\ UNCHANGED <<cache, cm, mig, cb, runs>>
       ELSE /\ strm' = [strm EXCEPT !.store = "saved"]
            /\ cache' = save(cache, strm.prompt, embedding, CapturedText(strm.capture.out))
            /\ UNCHANGED <<cm, mig, cb, runs>>
    /\ StrmFrame

\* A request with stream = true arrives; the model follows one such request
\* and its stream at a time.
handleStreaming(p, handler, model, prompt) ==
    /\ \A q \in Procs : req[q].pc \in {"idle", "finished"}
    /\ strm.up # "open" /\ strm.store # "embedding"
    /\ currentIndex < MaxCalls
    /\ Len(cache) < MaxRows
    /\ LET r == [Arrived(handler, model) EXCEPT !.stream = TRUE, !.prompt = prompt]
       IN  /\ req' = [req EXCEPT ![p] = ReqAtLoop(r)]
           /\ gn' = [gn EXCEPT ![p] = GnAtLoop(r, GnIdle, cooldowns)]
    /\ strm' = StrmIdle
    /\ UNCHANGED <<accounts, settings, tokens, currentIndex, cooldowns, now, ticks, rr, sw,
                   demoted, mon, undecryptable, cache, cm, mig, cb, runs, srv>>

\* getNextToken has returned (lines 60-83, 134-157); findResponse runs up to
\* its await of fetchEmbedding, or returns the exact hit.  findExact has no
\* catch block and findResponse calls it outside its try (line 13), outside the
\* handler's try as well: when the statement throws (storeOk is false) the
\* handler throws.
Req_TokenStream(p, storeOk) ==
    /\ req[p].pc = "awaitToken"
    /\ req[p].stream
    /\ gn[p].pc = "done"
    /\ LET r == req[p]
           token == gn[p].ret
           exactHit == findExact(cache, r.prompt)
       IN  IF ~token.some
           THEN /\ req' = [req EXCEPT ![p] = Finished(r, ServerError(NoAccountsError(r.model)))]
                /\ UNCHANGED strm
           ELSE IF IsLocal(token.provider)
           THEN /\ req' = [req EXCEPT ![p] = [r EXCEPT !.pc = "local", !.token = token,
                                                        !.dispatches = @ + 1]]
                /\ UNCHANGED strm
           ELSE IF ~storeOk
           THEN /\ req' = [req EXCEPT ![p] = Finished(r, ServerError(ECache))]
                /\ UNCHANGED strm
           ELSE IF Truthy(exactHit)
           THEN /\ req' = [req EXCEPT ![p] = Finished(r, Ok)]
                /\ strm' = Mock(r.handler, exactHit.text)
           ELSE /\ req' = [req EXCEPT ![p] = [r EXCEPT !.pc = "embedding", !.token = token]]
                /\ UNCHANGED strm
    /\ gn' = [gn EXCEPT ![p] = GnIdle]
    /\ UNCHANGED <<accounts, settings, tokens, currentIndex, cooldowns, now, ticks, rr, sw,
                   demoted, mon, undecryptable, cache, cm, mig, cb, runs, srv>>

\* findResponse resumes after fetchEmbedding (lines 20-29), then lines 82-83
\* or 95-100 (156-157 or 168-174).
Req_Embedded(p, embedding) ==
    /\ req[p].pc = "embedding"
    /\ LET r == req[p]
           cachedResponse == SemanticResponse(cache, embedding)
       IN  IF Truthy(cachedResponse)
           THEN /\ req' = [req EXCEPT ![p] = Finished(r, Ok)]
                /\ strm' = Mock(r.handler, cachedResponse.text)
           ELSE /\ req' = [req EXCEPT ![p] = [r EXCEPT !.pc = "dispatching",
                                                        !.dispatches = @ + 1]]
                /\ UNCHANGED strm
    /\ UNCHANGED <<accounts, settings, tokens, currentIndex, cooldowns, now, ticks, gn, rr,
                   sw, demoted, mon, undecryptable, cache, cm, mig, cb, runs, srv>>

\* streamGenerateInternal answers with the upstream stream (lines 100-103,
\* 174-177), or throws into the catch block (lines 111-116, 185-190).
Req_DispatchStream(p, out) ==
    /\ req[p].pc = "dispatching"
    /\ req[p].stream
    /\ IF out = NoError
       THEN /\ req' = [req EXCEPT ![p] = Finished(@, Ok)]
            /\ strm' = Opened(req[p].handler, req[p].prompt)
            /\ UNCHANGED <<cooldowns, gn>>
       ELSE LET r == req[p]
                cds == IF shouldRetry(out)
                       THEN [cooldowns EXCEPT ![r.token.email] = now + CooldownMs]
                       ELSE cooldowns
                r1 == [r EXCEPT !.lastError = out, !.errs = Append(@, out),
                                !.i = @ + 1, !.token = NoRet]
            IN  /\ cooldowns' = cds
                /\ req' = [req EXCEPT ![p] = ReqAtLoop(r1)]
                /\ gn' = [gn EXCEPT ![p] = GnAtLoop(r1, gn[p], cds)]
                /\ UNCHANGED strm
    /\ UNCHANGED <<accounts, settings, tokens, currentIndex, now, ticks, rr, sw, demoted,
                   mon, undecryptable, cache, cm, mig, cb, runs, srv>>

\* localAIClient.streamChat answers or throws (lines 71-72, 145-146): outside the try.
Req_LocalStream(p, ok) ==
    /\ req[p].pc = "local"
    /\ req[p].stream
    /\ req' = [req EXCEPT ![p] = Finished(@, IF ok THEN Ok ELSE ServerError(ELocal))]
    /\ strm' = IF ok THEN LocalOpened ELSE strm
    /\ UNCHANGED <<accounts, settings, tokens, currentIndex, cooldowns, now, ticks, gn, rr,
                   sw, demoted, mon, undecryptable, cache, cm, mig, cb, runs, srv>>

---------------------------------------------------------------------------
(* Server lifecycle: the module variables app and currentPort, the Nest     *)
(* applications NestFactory.create has made (numbered from 1; app = 0 is    *)
(* null) and one activation of bootstrapNestServer or stopNestServer per    *)
(* caller.  An application is created, listening or closed.                 *)

Callers == {"c1", "c2"}
Ports == {8045, 8046}

\* config.port || 8045: a port of 0 (or none) gives the default.
DefaultPort == 8045
PortOf(configPort) == IF configPort = 0 THEN DefaultPort ELSE configPort

\* Mutant of the address of listen: every interface.
ListenHostAny == "0.0.0.0"

\* The second argument of app.listen (line 151).
ListenHost == "127.0.0.1"

\* config is config.port as the caller passed it, port the port to listen on.
SrvCallIdle == [pc |-> "idle", fn |-> "none", config |-> 0, port |-> 0, target |-> 0,
                ret |-> "none"]
SrvIdle ==
    [app |-> 0, currentPort |-> 0, instances |-> <<>>,
     call |-> [c \in Callers |-> SrvCallIdle]]

SrvReturned(a, value) == [a EXCEPT !.pc = "done", !.ret = value]

Listening(instances) == {i \in DOMAIN instances : instances[i].state = "listening"}
Open(instances) == {i \in DOMAIN instances : instances[i].state # "closed"}

\* app.close(): the application and its listener are closed, or close() throws
\* and the application stays as it was.
Closed(instances, i, ok) ==
    IF ok /\ i \in DOMAIN instances THEN [instances EXCEPT ![i].state = "closed"]
    ELSE instances

\* app.listen(port, '127.0.0.1') fails when the port is taken.
PortFree(instances, port) == \A i \in Listening(instances) : instances[i].port # port

SrvFrame ==
    UNCHANGED <<accounts, settings, tokens, currentIndex, cooldowns, now, ticks, gn, rr,
                req, sw, demoted, mon, undecryptable, cache, cm, mig, cb, runs, strm>>

\* bootstrapNestServer up to its first await (lines 122-140): of the inner
\* stopNestServer's app.close(), or of NestFactory.create.
bootstrapNestServer(c, configPort) ==
    /\ srv.call[c].pc \in {"idle", "done"}
    /\ Len(srv.instances) < MaxInstances
    /\ srv' = [srv EXCEPT !.call[c] =
                 [SrvCallIdle EXCEPT !.fn = "bootstrap", !.config = configPort,
                                     !.port = PortOf(configPort),
                                     !.pc = IF srv.app # 0 THEN "closing" ELSE "creating",
                                     !.target = srv.app]]
    /\ SrvFrame

\* stopNestServer up to its await of app.close() (lines 162-169), or line 185.
stopNestServer(c) ==
    /\ srv.call[c].pc \in {"idle", "done"}
    /\ srv' = [srv EXCEPT !.call[c] =
                 IF srv.app # 0
                 THEN [SrvCallIdle EXCEPT !.fn = "stop", !.pc = "closing", !.target = srv.app]
                 ELSE SrvReturned([SrvCallIdle EXCEPT !.fn = "stop"], "true")]
    /\ SrvFrame

\* Lines 172-173 and 180-181.
AfterClose(sv, ok) == [sv EXCEPT !.app = 0, !.currentPort = 0]

\* app.close() has settled (lines 169-183); a bootstrap goes on to lines
\* 130-140.
Srv_Closed(c, ok) ==
    /\ srv.call[c].pc = "closing"
    /\ LET a == srv.call[c]
           sv == [AfterClose(srv, ok) EXCEPT
                     !.instances = Closed(srv.instances, a.target, ok)]
       IN  srv' = [sv EXCEPT !.call[c] =
                     IF a.fn = "stop" THEN SrvReturned(a, IF ok THEN "true" ELSE "false")
                     ELSE IF ok THEN [a EXCEPT !.pc = "creating"]
                     ELSE SrvReturned(a, "false")]
    /\ SrvFrame

\* NestFactory.create has settled (lines 140-151): app is assigned and
\* app.listen is awaited, or the catch block (lines 155-158).
Srv_Created(c, ok) ==
    /\ srv.call[c].pc = "creating"
    /\ LET a == srv.call[c]
           id == Len(srv.instances) + 1
       IN  srv' = IF ok
                  THEN [srv EXCEPT !.instances = Append(@, [state |-> "created", port |-> 0,
                                                              host |-> "none"]),
                                   !.app = id,
                                   !.call[c] = [a EXCEPT !.pc = "listening", !.target = id]]
                  ELSE [srv EXCEPT !.app = 0, !.call[c] = SrvReturned(a, "false")]
    /\ SrvFrame

\* app.listen has settled (lines 151-158).
Srv_Listened(c, free) ==
    /\ srv.call[c].pc = "listening"
    /\ LET a == srv.call[c]
       IN  srv' = IF /\ free
                     /\ PortFree(srv.instances, a.port)
                     /\ srv.instances[a.target].state = "created"
                  THEN [srv EXCEPT !.instances[a.target] =
                                       [state |-> "listening", port |-> a.port,
                                        host |-> ListenHost],
                                   !.currentPort = a.port,
                                   !.call[c] = SrvReturned(a, "true")]
                  ELSE [srv EXCEPT !.app = 0, !.call[c] = SrvReturned(a, "false")]
    /\ SrvFrame

\* isNestServerRunning
isNestServerRunning(sv) == sv.app # 0

---------------------------------------------------------------------------
(* CloudAccountRepo.init and migrateToEncrypted.  plain holds the fields    *)
(* <<id, "token">> and <<id, "quota">> whose stored text is plaintext JSON  *)
(* (it begins with `{`); every other field is ciphertext.  snap and splain  *)
(* are the rows the migration selected and their plaintext fields, k the    *)
(* row of the loop.                                                         *)

MigIdle == [plain |-> {}, pc |-> "idle", snap |-> <<>>, splain |-> {}, k |-> 0,
            failed |-> FALSE]

\* newToken.startsWith('{'), newQuota.startsWith('{') for the row of the loop.
TokenIsPlain(m) == <<m.snap[m.k].id, "token">> \in m.splain
QuotaIsPlain(m) == <<m.snap[m.k].id, "quota">> \in m.splain


\* UPDATE accounts SET token_json = ?, quota_json = ? WHERE id = ? (lines
\* 111-115) with the texts of the selected row.
MigrationWrite(rows, row) ==
    [i \in DOMAIN rows |->
        IF rows[i].id = row.id
        THEN [rows[i] EXCEPT !.token = row.token, !.quota = row.quota]
        ELSE rows[i]]

\* The loop from row m.k up to its next await of encrypt, or to its end
\* (lines 98-110): st is the store and the migration.
RECURSIVE MigLoop(_)
MigLoop(st) ==
    LET m == st.mig
    IN  IF m.k > Len(m.snap) THEN [st EXCEPT !.mig.pc = "done", !.mig.snap = <<>>,
                                             !.mig.splain = {}]
        ELSE IF TokenIsPlain(m) THEN [st EXCEPT !.mig.pc = "encToken"]
        ELSE IF QuotaIsPlain(m) THEN [st EXCEPT !.mig.pc = "encQuota"]
        ELSE MigLoop([st EXCEPT !.mig.k = @ + 1])

\* if (changed) UPDATE (lines 110-117), then the loop goes on.
MigWritten(st) ==
    LET m == st.mig
        row == m.snap[m.k]
    IN  MigLoop([rows |-> MigrationWrite(st.rows, row),
                 mig |-> [m EXCEPT !.k = @ + 1,
                                   !.plain = IF HasId(st.rows, row.id)
                                             THEN @ \ {<<row.id, "token">>, <<row.id, "quota">>}
                                             ELSE @]])

MigFrame ==
    UNCHANGED <<settings, tokens, currentIndex, cooldowns, now, ticks, gn, rr, req, sw,
                demoted, mon, undecryptable, cache, cm, cb, runs, strm, srv>>

\* init(): migrateToEncrypted selects the rows (line 96) and runs up to its
\* first await of encrypt.
migrateToEncrypted ==
    /\ mig.pc \in {"idle", "done"}
    /\ LET m == [mig EXCEPT !.snap = accounts, !.splain = mig.plain, !.k = 1,
                            !.failed = FALSE]
           st == MigLoop([rows |-> accounts, mig |-> m])
       IN  mig' = st.mig
    /\ UNCHANGED accounts
    /\ MigFrame

\* encrypt has settled: the next encrypt, the UPDATE of the row, or the catch
\* block (lines 118-120) when it rejected.
Mig_Encrypted(ok) ==
    /\ mig.pc \in {"encToken", "encQuota"}
    /\ LET st == IF ~ok
                 THEN [rows |-> accounts,
                       mig |-> [mig EXCEPT !.pc = "done", !.failed = TRUE, !.snap = <<>>,
                                           !.splain = {}]]
                 ELSE IF mig.pc = "encToken" /\ QuotaIsPlain(mig)
                 THEN [rows |-> accounts, mig |-> [mig EXCEPT !.pc = "encQuota"]]
                 ELSE MigWritten([rows |-> accounts, mig |-> mig])
       IN  /\ accounts' = st.rows
           /\ mig' = st.mig
    /\ MigFrame

---------------------------------------------------------------------------
(* CircuitBreaker of utils/resilience.  calls holds the execute call of     *)
(* each caller: idle, running (the task was invoked and is pending) or done *)
(* with its result.  streak counts the task failures since the last task    *)
(* success; nextHalfOpenTime is 0 while undefined.                          *)

CbCallIdle == [pc |-> "idle", result |-> "none"]

NewCircuitBreaker(failureThreshold, resetTimeout) ==
    [state |-> "CLOSED", failureCount |-> 0, nextHalfOpenTime |-> 0,
     failureThreshold |-> failureThreshold, resetTimeout |-> resetTimeout,
     calls |-> [p \in Procs |-> CbCallIdle], streak |-> 0]

\* updateState (lines 70-75)
updateState(b, t) ==
    IF b.state = "OPEN" /\ b.nextHalfOpenTime # 0 /\ t > b.nextHalfOpenTime
    THEN [b EXCEPT !.state = "HALF_OPEN"]
    ELSE b

\* Mutant of onSuccess: the failure count is kept.
onSuccessKeepCount(b) == [b EXCEPT !.state = "CLOSED"]

\* onSuccess (lines 77-83)
onSuccess(b) == [b EXCEPT !.state = "CLOSED", !.failureCount = 0]

\* onFailure (lines 85-94)
onFailure(b, t) ==
    LET n == b.failureCount + 1
    IN  IF n >= b.failureThreshold
        THEN [b EXCEPT !.failureCount = n, !.state = "OPEN",
                       !.nextHalfOpenTime = t + b.resetTimeout]
        ELSE [b EXCEPT !.failureCount = n]

CbFrame ==
    UNCHANGED <<accounts, settings, tokens, currentIndex, cooldowns, now, ticks, gn, rr,
                req, sw, demoted, mon, undecryptable, cache, cm, mig, runs, strm, srv>>

\* execute(task) up to its await (lines 55-64): the state is updated, then the
\* call is rejected or the task is invoked.
execute(p) ==
    /\ cb.calls[p].pc \in {"idle", "done"}
    /\ LET b == updateState(cb, now)
       IN  cb' = IF b.state = "OPEN"
                 THEN [b EXCEPT !.calls[p] = [pc |-> "done", result |-> "rejected"]]
                 ELSE [b EXCEPT !.calls[p] = [pc |-> "running", result |-> "none"]]
    /\ CbFrame

\* The task settles (lines 63-69): onSuccess and the result, or onFailure and
\* the error.
CB_Settled(p, ok) ==
    /\ cb.calls[p].pc = "running"
    /\ LET b == IF ok THEN onSuccess(cb) ELSE onFailure(cb, now)
       IN  cb' = [b EXCEPT !.calls[p] = [pc |-> "done",
                                         result |-> IF ok THEN "resolved" ELSE "failed"],
                           !.streak = IF ok THEN 0 ELSE @ + 1]
    /\ CbFrame

---------------------------------------------------------------------------
(* Semaphore.run on its own: the calls of run on one Semaphore of           *)
(* MaxConcurrency permits, numbered in the order they are made.  pc of a    *)
(* call: new (not made yet), waiting (its resolver is in the queue),        *)
(* granted (acquire has resolved, run has not resumed yet), running (the    *)
(* task was called), settled (the task resolved or rejected, the finally    *)
(* block is due), done.                                                     *)

MaxTasks == 5

RunIds == 1..MaxTasks

RunsIdle == [semaphore |-> NewSemaphore,
             calls |-> [i \in RunIds |-> [pc |-> "new", outcome |-> "none"]]]

RunsFrame ==
    UNCHANGED <<accounts, settings, tokens, currentIndex, cooldowns, now, ticks, gn, rr,
                req, sw, demoted, mon, undecryptable, cache, cm, mig, cb, strm, srv>>

\* run(task) up to its await (line 132): acquire takes a permit or queues.
run(i) ==
    /\ runs.calls[i].pc = "new"
    /\ \A j \in 1..(i - 1) : runs.calls[j].pc # "new"
    /\ runs' = [runs EXCEPT !.semaphore = acquire(@, i),
                            !.calls[i].pc = IF HasPermit(runs.semaphore) THEN "granted"
                                            ELSE "waiting"]
    /\ RunsFrame

\* await this.acquire() resumes: task() is called (line 134).
Run_Acquired(i) ==
    /\ runs.calls[i].pc = "granted"
    /\ runs' = [runs EXCEPT !.calls[i].pc = "running"]
    /\ RunsFrame

\* The promise of the task resolves or rejects.
Run_Settled(i, ok) ==
    /\ runs.calls[i].pc = "running"
    /\ runs' = [runs EXCEPT !.calls[i] = [pc |-> "settled",
                                          outcome |-> IF ok THEN "resolved" ELSE "rejected"]]
    /\ RunsFrame

\* The callers whose resolver release took out of the queue and called.
Resumed(before, after) ==
    {before.queue[k] : k \in DOMAIN before.queue} \ {after.queue[k] : k \in DOMAIN after.queue}

\* The finally block (lines 135-137): release, whatever the outcome.
Run_Released(i) ==
    /\ runs.calls[i].pc = "settled"
    /\ LET after == release(runs.semaphore)
       IN  runs' = [semaphore |-> after,
                    calls |-> [j \in RunIds |->
                                 IF j = i THEN [runs.calls[j] EXCEPT !.pc = "done"]
                                 ELSE IF j \in Resumed(runs.semaphore, after)
                                 THEN [runs.calls[j] EXCEPT !.pc = "granted"]
                                 ELSE runs.calls[j]]]
    /\ RunsFrame

---------------------------------------------------------------------------
(* The credential store on its own *)

InitRest ==
    /\ settings = [auto_switch_enabled |-> FALSE]
    /\ tokens = <<>>
    /\ currentIndex = 0
    /\ cooldowns = [e \in Emails |-> 0]
    /\ now = 0
    /\ ticks = 0
    /\ gn = [p \in Procs |-> GnIdle]
    /\ rr = [some |-> FALSE, list |-> <<>>, id |-> "none"]
    /\ req = [p \in Procs |-> ReqIdle]
    /\ sw = SwIdle
    /\ demoted = {}
    /\ mon = MonIdle
    /\ undecryptable = {}
    /\ cache = <<>>
    /\ cm = CmIdle
    /\ mig = MigIdle
    /\ cb = NewCircuitBreaker(DefaultFailureThreshold, DefaultResetTimeout)
    /\ runs = RunsIdle
    /\ strm = StrmIdle
    /\ srv = SrvIdle

Init ==
    /\ accounts = <<>>
    /\ InitRest

Token0 == Token("t0", 3600, 3600, "p0")

StoreIds == {"a", "b", "l"}

StoreInputs ==
    {Account(id, act, Token0, NoQuota, lu, "active", <<>>) :
        id \in StoreIds, act \in BOOLEAN, lu \in {0, 1}}

Next ==
    \/ \E account \in StoreInputs : addAccount(account)
    \/ \E id \in StoreIds : setActive(id)
    \/ \E id \in StoreIds : removeAccount(id)
    \/ \E id \in StoreIds, models \in {<<>>, <<M_a>>} : updateSelectedModels(id, models)
    \/ \E id \in StoreIds : updateLastUsed(id)

Spec == Init /\ [][Next]_vars

\* C1: after any sequence of addAccount, setActive and removeAccount, at most
\* one row of the store has is_active set.
C1_ActiveSingleton == Cardinality(ActiveRows(accounts)) <= 1

\* An active row was written while another row was active, and that row was demoted.
C1_Witness ==
    /\ Len(accounts) >= 2
    /\ demoted # {}
    /\ Cardinality(ActiveRows(accounts)) = 1
    /\ accounts[Len(accounts)].is_active

---------------------------------------------------------------------------
(* Selection: the token manager with two concurrent callers over a store    *)
(* that was filled before the service started; a local model is registered, *)
(* restricted and activated while it runs.                                  *)

TokenLocal == Token("local-access", 999999, 999999, "llama")

Cloud(id, tok, sel) == Account(id, FALSE, tok, NoQuota, 0, "active", sel)
Local(act, sel) == Account("l", act, TokenLocal, NoQuota, 0, "active", sel)

SelSeed == <<Cloud("a", Token0, <<>>), Cloud("b", Token0, <<M_prefA>>), Cloud("c", Token0, <<>>)>>

\* Local discovery registers the local model; the user then restricts its models
\* and makes it the active account.
SelInputs == {Local(FALSE, <<>>)}

ReqModels == {M_a, M_b}

InitSel ==
    /\ accounts = SelSeed
    /\ InitRest

NextSel ==
    \/ \E account \in SelInputs : addAccount(account)
    \/ updateSelectedModels("l", <<M_b>>)
    \/ \E id \in {"a", "l"} : setActive(id)
    \/ \E p \in Procs, m \in ReqModels : getNextToken(p, m)
    \/ \E p \in Procs : GN_Loaded(p)
    \/ \E p \in Procs : GN_Select(p)

SpecSel == InitSel /\ [][NextSel]_vars

PosOf(list, id) == CHOOSE i \in DOMAIN list : list[i] = id

\* The step in which caller p leaves line 518 and takes an account by round-robin.
RoundRobinStep(p) ==
    /\ gn[p].pc = "selecting"
    /\ gn'[p].pc # "selecting"
    /\ ~PinApplies(gn[p].active, tokens)

\* The step in which the activation of caller p returns an account.
ReturnStep(p) ==
    /\ gn[p].pc # "done"
    /\ gn'[p].pc = "done"
    /\ gn'[p].ret.some

\* C2: while the filtered candidate list is the same as at the previous round-robin
\* pick, the next pick is the list's next account, wrapping around (A, B, C, A), also
\* when the calls overlap; the account picked is the one returned.
C2_RoundRobin ==
    [][\A p \in Procs :
          RoundRobinStep(p) =>
              /\ (rr.some /\ rr.list = gn[p].valid) =>
                    rr'.id = rr.list[(PosOf(rr.list, rr.id) % Len(rr.list)) + 1]
              /\ ReturnStep(p) => gn'[p].ret.id = rr'.id]_vars

\* Four picks were made, the last one over A, B, C wrapped around to A and was
\* returned to one caller while the other caller holds the C picked before it.
C2_Witness ==
    /\ currentIndex = 4
    /\ rr.some /\ rr.list = <<"a", "b", "c">> /\ rr.id = "a"
    /\ \E p, q \in Procs :
          /\ gn[p].pc = "done" /\ gn[p].ret.id = "a"
          /\ gn[q].pc = "done" /\ gn[q].ret.id = "c"

\* C4: a call with a model given never returns an account whose non-empty
\* selected_models does not contain the model (prefix stripped, case folded).
C4_ModelFilter ==
    [][\A p \in Procs :
          (ReturnStep(p) /\ gn[p].model # NoModel) =>
              isModelAllowed(gn[p].model,
                             MapGet(tokens', gn'[p].ret.id).selected_models)]_vars

\* C5: a call that reads an active local account from the store, still active
\* when the call returns, returns that account.
C5_LocalSovereignty ==
    [][\A p \in Procs :
          (/\ ReturnStep(p)
           /\ gn[p].pc = "selecting"
           /\ gn[p].active.some
           /\ IsLocal(gn[p].active.provider)
           /\ gn[p].active.id \in ActiveIds(accounts)) =>
              gn'[p].ret.id = gn[p].active.id]_vars

---------------------------------------------------------------------------
(* Time: the token manager with two concurrent callers, the clock, the      *)
(* cooldowns set by the callers' failed dispatches, token refresh and       *)
(* project discovery.                                                       *)

\* A token with 200 seconds left and no project id yet.
TokenSoon == Token("t0", 3600, 200, NoProject)

TimeSeed == <<Cloud("a", TokenSoon, <<>>)>>

\* markAsRateLimited is called with the email of a cloud account that
\* getNextToken returned to the caller (proxy.service.ts lines 114 and 188).
Markable(callers) ==
    {gn[p].ret.email : p \in {q \in callers : /\ gn[q].pc = "done"
                                              /\ gn[q].ret.some
                                              /\ ~IsLocal(gn[q].ret.provider)}}

InitTime ==
    /\ accounts = TimeSeed
    /\ InitRest

NextTime ==
    \/ Tick
    \/ \E email \in Markable(Procs) : markAsRateLimited(email)
    \/ \E email \in Markable(Procs) : resetCooldown(email)
    \/ \E p \in Procs : getNextToken(p, NoModel)
    \/ \E p \in Procs : GN_Loaded(p)
    \/ \E p \in Procs : GN_Select(p)
    \/ \E p \in Procs : GN_Refreshed(p)
    \/ \E p \in Procs : GN_Saved(p)
    \/ \E p \in Procs : GN_Discovered(p)
    \/ \E p \in Procs : GN_SavedPid(p)

SpecTime == InitTime /\ [][NextTime]_vars

\* C3: an activation never returns an account at a time before the account's
\* cooldown timestamp.
C3_CooldownWindow ==
    [][\A p \in Procs :
          ReturnStep(p) => now' >= cooldowns'[gn'[p].ret.email]]_vars

ExpiryOf(rows, id) == rows[RowIndex(rows, id)].token.expiry_timestamp

\* C6: the expiry_timestamp of an account never decreases, in the store and in
\* the token manager's map.
C6_ExpiryMonotonic ==
    [][/\ \A id \in Ids :
            (HasId(accounts, id) /\ HasId(accounts', id)) =>
                ExpiryOf(accounts', id) >= ExpiryOf(accounts, id)
       /\ \A id \in Ids :
            (HasKey(tokens, id) /\ HasKey(tokens', id)) =>
                MapGet(tokens', id).expiry_timestamp >= MapGet(tokens, id).expiry_timestamp]_vars

---------------------------------------------------------------------------
(* Proxy: a chat request over the token manager, next to the other traffic  *)
(* of the gateway: its calls of getNextToken and the cooldowns its failed   *)
(* dispatches set.                                                          *)

ReqProcs == {"p1"}
OtherProcs == Procs \ ReqProcs

ProxySeeds ==
    { <<Cloud("a", Token0, <<>>), Cloud("b", Token0, <<>>), Cloud("c", Token0, <<>>)>>,
      <<Cloud("a", Token0, <<>>), Local(TRUE, <<>>)>> }

InitProxy ==
    /\ accounts \in ProxySeeds
    /\ InitRest

NextProxy ==
    \/ \E p \in ReqProcs : handleChatCompletions(p, M_a)
    \/ \E p \in ReqProcs : handleAnthropicMessages(p, M_a)
    \/ \E p \in OtherProcs : getNextToken(p, M_a)
    \/ \E email \in Markable(OtherProcs) : markAsRateLimited(email)
    \/ \E p \in Procs : GN_Loaded(p)
    \/ \E p \in Procs : GN_Select(p)
    \/ \E p \in ReqProcs : Req_Slept(p)
    \/ \E p \in ReqProcs : Req_Token(p)
    \/ \E p \in ReqProcs : Req_Local(p)
    \/ \E p \in ReqProcs : Req_Cache(p)
    \/ \E p \in ReqProcs : Req_Dispatch(p)

SpecProxy == InitProxy /\ [][NextProxy]_vars

AllRateLimited(errs) == \A k \in DOMAIN errs : shouldRetry(errs[k])

\* C7: a chat request of either handler calls getNextToken at most 3 times and
\* dispatches at most 3 times; after a third failed dispatch it has ended, and
\* when all three failures were rate-limit-shaped it has ended with the last error.
C7_RetryBound ==
    \A p \in Procs :
        /\ req[p].calls <= 3
        /\ req[p].dispatches <= 3
        /\ Len(req[p].errs) <= 3
        /\ Len(req[p].errs) = 3 => req[p].pc = "finished"
        /\ (Len(req[p].errs) = 3 /\ AllRateLimited(req[p].errs)) =>
              req[p].result = ServerError(req[p].errs[3])

\* A request of the Anthropic handler has ended after three calls and three
\* dispatches that all failed with a rate-limit-shaped error.
C7_Witness ==
    \E p \in Procs :
        /\ req[p].pc = "finished"
        /\ req[p].handler = "anthropic"
        /\ req[p].calls = 3 /\ req[p].dispatches = 3
        /\ req[p].errs = <<E429, E429, E429>>
        /\ req[p].result.status = 500

\* C8: a dispatch error that is not rate-limit-shaped ends the request at once:
\* it is the request's last error and no call of getNextToken follows it.
C8_NonMatchingTerminates ==
    \A p \in Procs :
        \A k \in DOMAIN req[p].errs :
            ~shouldRetry(req[p].errs[k]) =>
                /\ req[p].pc = "finished"
                /\ k = Len(req[p].errs)
                /\ req[p].calls = k

---------------------------------------------------------------------------
(* Cooldown: chat requests of the OpenAI handler over a single cloud        *)
(* account A, and the clock.                                                *)

InitCooldown ==
    /\ accounts = <<Cloud("a", Token0, <<>>)>>
    /\ InitRest

NextCooldown ==
    \/ Tick
    \/ \E p \in ReqProcs : handleChatCompletions(p, M_a)
    \/ \E p \in OtherProcs : getNextToken(p, M_a)
    \/ \E email \in Markable(OtherProcs) : markAsRateLimited(email)
    \/ \E p \in Procs : GN_Loaded(p)
    \/ \E p \in Procs : GN_Select(p)
    \/ \E p \in ReqProcs : Req_Token(p)
    \/ \E p \in ReqProcs : Req_Cache(p)
    \/ \E p \in ReqProcs : Req_Dispatch(p)

SpecCooldown == InitCooldown /\ [][NextCooldown]_vars

\* C9: with the single cloud account A, a request whose first upstream call
\* fails with a 429-shaped error has A in cooldown, gets null from its next
\* getNextToken and ends with status 500 and the message "No available accounts
\* ..."; a request that arrives when the cooldown timestamp of A has been reached
\* has A as its candidate and is given A.
C9_CooldownScenario ==
    /\ [](\A p \in ReqProcs :
            (req[p].errs # <<>> /\ shouldRetry(req[p].errs[1])) =>
                /\ cooldowns["a@x"] # 0
                /\ req[p].calls = 2 /\ req[p].dispatches = 1
                /\ \/ /\ req[p].pc = "awaitToken"
                      /\ gn[p].pc = "done" /\ ~gn[p].ret.some
                   \/ /\ req[p].pc = "finished"
                      /\ req[p].result.status = 500
                      /\ Head(req[p].result.message) = "No available accounts satisfy model: ")
    /\ [][\A p \in ReqProcs :
            /\ (/\ req[p].pc \in {"idle", "finished"}
                /\ req'[p].pc = "awaitToken"
                /\ tokens # <<>>
                /\ cooldowns["a@x"] # 0
                /\ now >= cooldowns["a@x"]) =>
                  (gn'[p].pc = "selecting" /\ gn'[p].valid = <<"a">>)
            /\ (gn[p].pc = "selecting" /\ gn'[p].pc = "done") =>
                  gn'[p].ret.id = "a"]_vars

\* With no other traffic, A was put in cooldown by the request's 429 and a later
\* request was given A at or after the cooldown timestamp.
C9_Witness ==
    /\ \A q \in OtherProcs : gn[q] = GnIdle
    /\ \E p \in ReqProcs :
          /\ req[p].pc = "cache"
          /\ req[p].token.id = "a"
          /\ cooldowns["a@x"] # 0
          /\ now = cooldowns["a@x"]

---------------------------------------------------------------------------
(* Switch: the auto-switcher over a store whose quotas, active account and  *)
(* setting change while it runs.                                            *)

Q0 == Quota(<<0>>)
Q50_100 == Quota(<<50, 100>>)
QEmpty == Quota(<<>>)

SwitchSeeds ==
    { <<Account("a", TRUE, Token0, qa, 0, sa, <<>>),
        Account("b", FALSE, Token0, qb, 0, sb, <<>>),
        Account("c", FALSE, Token0, qc, 0, "active", <<>>)>> :
        qa \in {NoQuota, Q0}, sa \in {"active", "rate_limited"},
        qb \in {NoQuota, Q0, Q50_100}, sb \in {"active", "refreshing"},
        qc \in {NoQuota, Q50_100} }

GivenScores == {R(0, 1), R(35, 1), R(80, 1)}

InitSwitch ==
    /\ accounts \in SwitchSeeds
    /\ InitRest

NextSwitch ==
    \/ \E value \in BOOLEAN : setSetting(value)
    \/ \E id \in {"a", "b"}, quota \in {QEmpty, Q0, Q50_100} : updateQuota(id, quota)
    \/ \E id \in {"a", "b"} : setActive(id)
    \/ checkAndSwitchIfNeeded
    \/ \E score \in GivenScores : findBestAccount("a", score)
    \/ SW_Read
    \/ SW_Found
    \/ SW_Switched

SpecSwitch == InitSwitch /\ [][NextSwitch]_vars

\* C10: the auto-switcher never makes a candidate the active account, and
\* findBestAccount never answers with a candidate, whose health score is at
\* most the current score plus 5.
C10_Hysteresis ==
    [][/\ (sw.pc = "switching" /\ sw'.pc = "done") =>
             /\ ActiveIds(accounts') \subseteq {sw.next.id}
             /\ ~AtMost(calculateHealthScore(sw.next),
                        PlusInt(sw.currentScore, HYSTERESIS_THRESHOLD))
       /\ (sw.pc = "finding" /\ sw'.found) =>
             ~AtMost(calculateHealthScore(sw'.next),
                     PlusInt(sw.currentScore, HYSTERESIS_THRESHOLD))
       /\ (sw' # sw /\ sw.pc # "switching") =>
             ActiveIds(accounts') = ActiveIds(accounts)]_vars

\* The switcher has made a candidate active while the store holds another
\* account of status active that the guard rejects.
C10_Witness ==
    /\ sw.pc = "done" /\ sw.result /\ ~sw.direct
    /\ ActiveIds(accounts) = {sw.next.id}
    /\ \E i \in DOMAIN accounts :
          /\ accounts[i].id \notin {sw.currentAccountId, sw.next.id}
          /\ accounts[i].status = "active"
          /\ AtMost(calculateHealthScore(accounts[i]),
                    PlusInt(sw.currentScore, HYSTERESIS_THRESHOLD))

\* The rows of a snapshot that findBestAccount may answer with, as the claim
\* lists them: another account than the current one, of status active, whose
\* score exceeds the current score by more than 5.
Eligible(rows, currentAccountId, currentScore) ==
    {i \in DOMAIN rows :
        /\ rows[i].id # currentAccountId
        /\ rows[i].status = "active"
        /\ Greater(calculateHealthScore(rows[i]),
                   PlusInt(currentScore, HYSTERESIS_THRESHOLD))}

isAccountDepleted(account) ==
    /\ account.quota.present
    /\ \E i \in DOMAIN account.quota.models : account.quota.models[i] < DepletedThreshold

\* The accounts read hold an active account whose quota is below 5% or that is
\* rate-limited, and another account of status active with quota on every model.
TriggerCase(rows) ==
    /\ ActiveRows(rows) # {}
    /\ LET cur == FirstActive(rows)
       IN  /\ isAccountDepleted(cur) \/ cur.status = "rate_limited"
           /\ \E i \in DOMAIN rows :
                 /\ rows[i].id # cur.id
                 /\ rows[i].status = "active"
                 /\ rows[i].quota.present /\ rows[i].quota.models # <<>>
                 /\ ~isAccountDepleted(rows[i])

\* C12: with auto-switch enabled, a check that finds the active account below 5%
\* of quota or rate-limited, while another account has status active and healthy
\* quota, goes on to search the replacement that it then promotes.
C12_Trigger ==
    [][(sw.pc = "reading" /\ sw'.pc # "reading" /\ TriggerCase(sw.snap)) =>
          sw'.pc = "finding"]_vars

---------------------------------------------------------------------------
(* Monitor: the timer's polls and forced polls overlap over a store of two  *)
(* accounts whose quota fetch succeeds or is rate-limited.                  *)

TaskIds == PollIds \X (1..Cardinality(Ids))

MonitorSeed == <<Cloud("a", Token0, <<>>), Cloud("b", Token0, <<>>)>>

MonitorFetches == {MonFetchOk(Q50_100), MonFetchErr(ErrHttp429)}

InitMonitor ==
    /\ accounts = MonitorSeed
    /\ InitRest

NextMonitor ==
    \/ start
    \/ stop
    \/ IntervalFired
    \/ forcePoll
    \/ \E P \in PollIds : Poll_Read(P)
    \/ \E P \in PollIds : Poll_Settled(P)
    \/ \E P \in PollIds : Poll_Checked(P)
    \/ \E t \in TaskIds : PA_Start(t)
    \/ \E t \in TaskIds : PA_StatusSet(t)
    \/ \E t \in TaskIds, out \in MonitorFetches : PA_Fetched(t, out)
    \/ \E t \in TaskIds : PA_QuotaSaved(t, Q50_100)
    \/ \E t \in TaskIds : PA_Returned(t)
    \/ \E t \in TaskIds : Sem_Released(t)

SpecMonitor == InitMonitor /\ [][NextMonitor]_vars

\* C13: at every instant at most 3 tasks are inside processAccount, whatever the
\* number of accounts and of overlapping polls, and the semaphore's active count
\* is within 0..3.
C13_ConcurrencyBound ==
    /\ Cardinality(Executing(mon)) <= 3
    /\ mon.semaphore.activeCount \in 0..3

\* Two polls overlap: three tasks are inside processAccount and the fourth waits
\* in the semaphore's queue.
C13_Witness ==
    /\ Cardinality(Executing(mon)) = 3
    /\ mon.semaphore.activeCount = 3
    /\ Len(mon.semaphore.queue) = 1
    /\ \A P \in PollIds : mon.polls[P].pc = "waiting"

---------------------------------------------------------------------------
(* Task: the timer's polls over two accounts, one of them with a token that *)
(* expires soon, with every outcome of the token refresh and of the quota   *)
(* fetch.                                                                   *)

TokenExpiring == Token("t0", 3600, 200, "p0")

TaskSeed == <<Cloud("a", TokenExpiring, <<>>), Cloud("b", Token0, <<>>)>>

TaskRefreshes == {MonRefreshOk("t1", 3600), MonRefreshErr(ErrNetwork),
                  MonRefreshErr(ErrHttp429)}

TaskFetches == {MonFetchOk(Q50_100), MonFetchErr(ErrNetwork), MonFetchErr(ErrMsg429)}

InitTask ==
    /\ accounts = TaskSeed
    /\ InitRest

NextTask ==
    \/ start
    \/ stop
    \/ IntervalFired
    \/ \E P \in PollIds : Poll_Read(P)
    \/ \E P \in PollIds : Poll_Failed(P)
    \/ \E P \in PollIds : Poll_Settled(P)
    \/ \E P \in PollIds : Poll_Checked(P)
    \/ \E t \in TaskIds : PA_Start(t)
    \/ \E t \in TaskIds : PA_StatusSet(t)
    \/ \E t \in TaskIds, out \in TaskRefreshes : PA_Refreshed(t, out)
    \/ \E t \in TaskIds : PA_TokenSaved(t)
    \/ \E t \in TaskIds, out \in TaskFetches : PA_Fetched(t, out)
    \/ \E t \in TaskIds : PA_QuotaSaved(t, Q50_100)
    \/ \E t \in TaskIds : PA_Returned(t)
    \/ \E t \in TaskIds : PA_Looped(t)
    \/ \E t \in TaskIds : Sem_Released(t)

SpecTask == InitTask /\ [][NextTask]_vars

StatusOf(rows, id) == rows[RowIndex(rows, id)].status

\* The step in which the task named t catches an error.
CatchStep(t) ==
    /\ t \in TaskNames(mon) /\ t \in TaskNames(mon')
    /\ TaskOf(mon, t).pc \in {"refresh", "quota"}
    /\ TaskOf(mon', t).pc \in {"limited", "failed", "backoff"}

\* C14: a task that catches a 429-shaped error sets the account's status to
\* rate_limited and ends without another attempt; after any other error it
\* retries, at most 3 attempts being made in all, and when the third fails it sets
\* the status to error and ends; an attempt that succeeds writes the quota and sets
\* the status to active.
C14_TaskOutcome ==
    [][\A t \in TaskIds :
         /\ (CatchStep(t) /\ isRateLimit(TaskOf(mon', t).error)) =>
               /\ StatusOf(accounts', TaskOf(mon, t).id) = "rate_limited"
               /\ TaskOf(mon', t).pc = "limited"
         /\ (CatchStep(t) /\ ~isRateLimit(TaskOf(mon', t).error)) =>
               IF TaskOf(mon', t).tries = 3
               THEN /\ StatusOf(accounts', TaskOf(mon, t).id) = "error"
                    /\ TaskOf(mon', t).pc = "failed"
               ELSE /\ TaskOf(mon', t).pc = "backoff"
                    /\ accounts' = accounts
         /\ (t \in TaskNames(mon) /\ t \in TaskNames(mon')) =>
               LET T == TaskOf(mon, t)
                   U == TaskOf(mon', t)
               IN  /\ U.tries <= 3
                   /\ (T.pc \in {"limited", "failed"} /\ U # T) =>
                         (U.pc = "finished" /\ U.tries = T.tries)
                   /\ (T.pc = "backoff" /\ U # T) =>
                         (U.pc = "status" /\ U.tries = T.tries + 1)
                   /\ (T.pc = "saveQuota" /\ U # T) =>
                         /\ U.pc = "setActive"
                         /\ StatusOf(accounts', T.id) = "active"
                         /\ accounts'[RowIndex(accounts', T.id)].quota = Q50_100
                   /\ (T.pc = "setActive" /\ U # T) =>
                         (U.pc = "finished" /\ U.tries = T.tries)]_vars

\* The task of A has failed twice with other errors and refreshed the token on
\* the way; its third attempt was rate-limited, and the status is rate_limited.
C14_Witness ==
    \E t \in TaskNames(mon) :
        /\ TaskOf(mon, t).id = "a"
        /\ TaskOf(mon, t).pc = "finished"
        /\ TaskOf(mon, t).tries = 3
        /\ TaskOf(mon, t).token.access_token = "t1"
        /\ isRateLimit(TaskOf(mon, t).error)
        /\ StatusOf(accounts, "a") = "rate_limited"

\* The steps of the task named t.
TaskStep(t) ==
    \/ PA_Start(t)
    \/ PA_StatusSet(t)
    \/ \E out \in TaskRefreshes : PA_Refreshed(t, out)
    \/ PA_TokenSaved(t)
    \/ \E out \in TaskFetches : PA_Fetched(t, out)
    \/ PA_QuotaSaved(t, Q50_100)
    \/ PA_Returned(t)
    \/ PA_Looped(t)
    \/ Sem_Released(t)

\* Every pending promise is settled in the end (the store and the Google API
\* answer or throw, the backoff timers fire) and the interval timer fires while
\* it is set.
SpecTaskFair ==
    /\ SpecTask
    /\ WF_vars(IntervalFired)
    /\ \A P \in PollIds : WF_vars(Poll_Read(P) \/ Poll_Failed(P))
    /\ \A P \in PollIds : WF_vars(Poll_Settled(P))
    /\ \A P \in PollIds : WF_vars(Poll_Checked(P))
    /\ \A t \in TaskIds : WF_vars(TaskStep(t))

---------------------------------------------------------------------------
(* Refresh: two concurrent callers of getNextToken over a single cloud      *)
(* account whose token expires in 200 s and whose project id is known.      *)

InitRefresh ==
    /\ accounts = <<Cloud("a", TokenExpiring, <<>>)>>
    /\ InitRest

NextRefresh ==
    \/ \E p \in Procs : getNextToken(p, NoModel)
    \/ \E p \in Procs : GN_Loaded(p)
    \/ \E p \in Procs : GN_Select(p)
    \/ \E p \in Procs : GN_Refreshed(p)
    \/ \E p \in Procs : GN_Saved(p)

SpecRefresh == InitRefresh /\ [][NextRefresh]_vars

TokenOfRow(rows, id) == rows[RowIndex(rows, id)].token

\* C16: a call whose refresh succeeded with (T, E) returns the account with
\* access_token T and expiry_timestamp now + E, and at its return the store row
\* of the account holds that access_token and expiry_timestamp.
C16_RefreshOnSelection ==
    [][\A p \in Procs :
          (gn[p].pc = "saving" /\ gn'[p].pc = "done" /\ gn[p].save.write) =>
              /\ gn'[p].ret.some
              /\ gn'[p].ret.token.access_token = gn[p].save.token.access_token
              /\ gn'[p].ret.token.expiry_timestamp = gn[p].save.token.expiry_timestamp
              /\ TokenOfRow(accounts', gn[p].accountId).access_token =
                    gn'[p].ret.token.access_token
              /\ TokenOfRow(accounts', gn[p].accountId).expiry_timestamp =
                    gn'[p].ret.token.expiry_timestamp]_vars

\* C17: a call whose refresh fails still returns the selected account, with the
\* token data it selected as they were before the failure; the failure changes
\* neither the map nor the store.
C17_RefreshFailure ==
    [][\A p \in Procs :
          (gn[p].pc = "refreshing" /\ gn'[p].pc = "done") =>
              /\ gn'[p].ret.some
              /\ gn'[p].ret.id = gn[p].accountId
              /\ gn'[p].ret.token = RetOf(TDof(gn[p], tokens)).token
              /\ tokens' = tokens
              /\ accounts' = accounts]_vars

\* A call has returned A with the token that expires in 200 s: its refresh
\* failed, and the map and the store still hold that token.
C17_Witness ==
    \E p \in Procs :
        /\ gn[p].pc = "done"
        /\ gn[p].ret.some /\ gn[p].ret.id = "a"
        /\ gn[p].ret.token = TokenExpiring
        /\ MapGet(tokens, "a").expiry_timestamp = TokenExpiring.expiry_timestamp
        /\ TokenOfRow(accounts, "a") = TokenExpiring

\* C18: a call whose project discovery fails returns the account with the
\* project id cloud-code-<local part of the email>, and at its return the store
\* row of the account holds that fallback, so that it is kept for later calls.
C18_ProjectFallback ==
    [][\A p \in Procs :
          (gn[p].pc = "discovering" /\ gn'[p].pc = "done"
              /\ HasId(accounts', gn[p].accountId)) =>
              /\ gn'[p].ret.token.project_id = FallbackProjectId(gn'[p].ret.email)
              /\ TokenOfRow(accounts', gn[p].accountId).project_id =
                    FallbackProjectId(gn'[p].ret.email)]_vars

LastUsedOf(rows, id) == rows[RowIndex(rows, id)].last_used

\* C19: when a call returns an account, the store's last_used of that account
\* is the time of the selection (or later, when a later selection was recorded).
C19_UsageRecorded ==
    [][\A p \in Procs :
          (ReturnStep(p) /\ HasId(accounts', gn'[p].ret.id)) =>
              LastUsedOf(accounts', gn'[p].ret.id) >= nowSeconds(gn[p])]_vars

---------------------------------------------------------------------------
(* Route: requests for two models over account A, restricted to one model,  *)
(* and account B with no restriction; no cooldowns.                         *)

M_Pro25 == <<"gemini-2.5-pro">>                    \* 'gemini-2.5-pro'
M_Pro25Prefixed == <<"models/", "gemini-2.5-pro">> \* 'models/gemini-2.5-pro'
M_Pro3 == <<"gemini-3-pro-preview">>               \* 'gemini-3-pro-preview'

RouteSeed == <<Cloud("a", Token0, <<M_Pro25Prefixed>>), Cloud("b", Token0, <<>>)>>

InitRoute ==
    /\ accounts = RouteSeed
    /\ InitRest

NextRoute ==
    \/ \E p \in Procs, m \in {M_Pro25, M_Pro3} : getNextToken(p, m)
    \/ \E p \in Procs : GN_Loaded(p)
    \/ \E p \in Procs : GN_Select(p)

SpecRoute == InitRoute /\ [][NextRoute]_vars

\* C20: with A restricted to models/gemini-2.5-pro and B unrestricted, every
\* request for gemini-2.5-pro is given A and every request for
\* gemini-3-pro-preview is given B, however many requests are made and in
\* whatever order.
C20_RoutingScenario ==
    [][\A p \in Procs :
          ReturnStep(p) =>
              /\ gn[p].model = M_Pro25 => gn'[p].ret.id = "a"
              /\ gn[p].model = M_Pro3 => gn'[p].ret.id = "b"]_vars

---------------------------------------------------------------------------
(* Translate: the two stream processors over an upstream that delivers up   *)
(* to MaxChunks chunks of every kind and then ends or fails, with a         *)
(* consumer that may leave.                                                 *)

StreamLines == {LineText, LineFinish, LineMeta, LineDone, LineBad, LineFragment}

InitTranslate ==
    /\ accounts = <<>>
    /\ InitRest

NextTranslate ==
    \/ processAnthropicInternalStream
    \/ processOpenAIStream
    \/ \E line \in StreamLines : Up_Data(line)
    \/ Up_End
    \/ Up_Error
    \/ Client_Disconnected

SpecTranslate == InitTranslate /\ [][NextTranslate]_vars

\* C21: a subscription of the Anthropic processor whose upstream ended without
\* any data got exactly one error, 'Empty response stream', no event and no
\* completion; one whose upstream ended after data got no such error and was
\* completed after the terminal events message_delta and message_stop.
C21_EmptyStream ==
    (strm.kind = "anthropic" /\ strm.up = "ended"
        /\ strm.client.status # "unsubscribed") =>
        LET s == strm.client
            n == Len(s.out)
        IN  IF ~s.receivedData
            THEN /\ s.status = "error" /\ s.errors = 1
                 /\ s.error = EmptyStreamError
                 /\ s.out = <<>>
            ELSE /\ s.status = "complete" /\ s.errors = 0
                 /\ n >= 2
                 /\ s.out[n - 1].type = "message_delta"
                 /\ s.out[n].type = "message_stop"

\* The upstream ended before any chunk: the subscriber holds the error and
\* nothing else.
C21_Witness ==
    /\ strm.kind = "anthropic" /\ strm.up = "ended" /\ strm.chunks = 0
    /\ strm.client.status = "error"
    /\ strm.client.error = EmptyStreamError
    /\ strm.client.out = <<>>

\* How many events of a type were delivered.
RECURSIVE CountOf(_, _)
CountOf(out, type) ==
    IF out = <<>> THEN 0
    ELSE (IF Head(out).type = type THEN 1 ELSE 0) + CountOf(Tail(out), type)

\* C23: a subscription of the OpenAI processor that was completed got, as its
\* last two events, a chat.completion.chunk with a finish_reason and then
\* data: [DONE], and no other [DONE], whatever the upstream sent.
C23_OpenAITermination ==
    (strm.kind = "openai" /\ strm.client.status = "complete") =>
        LET out == strm.client.out
            n == Len(out)
        IN  /\ n >= 2
            /\ out[n - 1].type = "chat.completion.chunk"
            /\ out[n - 1].finish # "none"
            /\ out[n].type = "[DONE]"
            /\ CountOf(out, "[DONE]") = 1

---------------------------------------------------------------------------
(* Stream: one chat request with stream = true at a time over the cloud     *)
(* account A, or A and a local server, and a cache that holds one answer.   *)

StreamSeeds ==
    { <<Cloud("a", Token0, <<>>)>>,
      <<Cloud("a", Token0, <<>>), Local(TRUE, <<>>)>> }
StreamPrompts == { <<"q1">>, <<"q2">> }
StreamEmbeddings == { <<10, 0>>, <<0, 10>>, EmbeddingFailed }
StreamOutcomes == {NoError, E401}
ShortLines == {LineText, LineFinish}
CachedAnswer == <<"cached">>

InitStream ==
    /\ accounts \in StreamSeeds
    /\ settings = [auto_switch_enabled |-> FALSE]
    /\ tokens = <<>>
    /\ currentIndex = 0
    /\ cooldowns = [e \in Emails |-> 0]
    /\ now = 0
    /\ ticks = 0
    /\ gn = [p \in Procs |-> GnIdle]
    /\ rr = [some |-> FALSE, list |-> <<>>, id |-> "none"]
    /\ req = [p \in Procs |-> ReqIdle]
    /\ sw = SwIdle
    /\ demoted = {}
    /\ mon = MonIdle
    /\ undecryptable = {}
    /\ cache = save(<<>>, <<"q1">>, <<10, 0>>, CachedAnswer)
    /\ cm = CmIdle
    /\ mig = MigIdle
    /\ cb = NewCircuitBreaker(DefaultFailureThreshold, DefaultResetTimeout)
    /\ runs = RunsIdle
    /\ strm = StrmIdle
    /\ srv = SrvIdle

NextStream ==
    \/ \E p \in ReqProcs, handler \in {"anthropic", "openai"}, prompt \in StreamPrompts :
          handleStreaming(p, handler, M_a, prompt)
    \/ \E p \in ReqProcs : GN_Loaded(p)
    \/ \E p \in ReqProcs : GN_Select(p)
    \/ \E p \in ReqProcs : Req_Slept(p)
    \/ \E p \in ReqProcs, storeOk \in BOOLEAN : Req_TokenStream(p, storeOk)
    \/ \E p \in ReqProcs, embedding \in StreamEmbeddings : Req_Embedded(p, embedding)
    \/ \E p \in ReqProcs, out \in StreamOutcomes : Req_DispatchStream(p, out)
    \/ \E p \in ReqProcs, ok \in BOOLEAN : Req_LocalStream(p, ok)
    \/ \E line \in ShortLines : Up_Data(line)
    \/ Up_End
    \/ Up_Error
    \/ Client_Disconnected
    \/ \E embedding \in StreamEmbeddings : Store_Embedded(embedding)

SpecStream == InitStream /\ [][NextStream]_vars

\* C22: the proxy never hands to the client a stream that failed with 'Empty
\* response stream' while the request had attempts left: the retry loop makes
\* another attempt instead.
C22_EmptyStreamRetried ==
    \A p \in Procs :
        ~ /\ req[p].stream
          /\ req[p].pc = "finished"
          /\ req[p].result = Ok
          /\ strm.source = "upstream"
          /\ strm.client.error = EmptyStreamError
          /\ LoopContinues(req[p].i + 1)

\* What a caller is to receive on a cache hit with stream = true.
MockShape(s, handler, content) ==
    /\ s.status = "complete"
    /\ s.errors = 0
    /\ s.out = IF handler = "anthropic"
               THEN <<Event("message_start", <<>>, "none"),
                      Event("content_block_start", <<>>, "none"),
                      Event("content_block_delta", content, "none"),
                      Event("content_block_stop", <<>>, "none"),
                      Event("message_delta", <<>>, "end_turn"),
                      Event("message_stop", <<>>, "none")>>
               ELSE <<Event("chat.completion.chunk", content, "stop"),
                      Event("[DONE]", <<>>, "none")>>

\* The client of request p was answered from the cache with a stream.
CacheHitStream(p) ==
    req[p].stream /\ req[p].pc = "finished" /\ strm.source = "cache"

HitShape(p) ==
    \E i \in DOMAIN cache :
        /\ cache[i].response_text # <<>>
        /\ MockShape(strm.client, req[p].handler, cache[i].response_text)

C26_CacheFailuresHidden ==
    \A p \in Procs :
        /\ (req[p].stream /\ req[p].pc = "finished" /\ strm.store = "failed") =>
               req[p].result = Ok
        /\ req[p].pc = "finished" => req[p].result # ServerError(ECache)

\* C27: a row is written to the cache for a streaming request only when its
\* stream was completed and the client had not disconnected while it was
\* streaming.
C27_NoPartialCached ==
    [][ cache' # cache =>
            (strm.capture.status = "complete" /\ ~strm.disconnected) ]_vars

AnthropicEvents ==
    {"message_start", "content_block_start", "content_block_delta", "content_block_stop",
     "message_delta", "message_stop", "ping", "error"}

\* C33: the stream that an Anthropic request with stream = true gets from a
\* local provider carries Anthropic events only, never chat.completion.chunk.
C33_AnthropicShapeLocal ==
    \A p \in Procs :
        (/\ req[p].handler = "anthropic" /\ req[p].stream
         /\ req[p].pc = "finished" /\ req[p].result = Ok
         /\ strm.source = "local") =>
            \A k \in DOMAIN strm.client.out :
                strm.client.out[k].type \in AnthropicEvents

---------------------------------------------------------------------------
(* Cache: lookups and stores of the cache manager over a table that the     *)
(* stores fill.                                                              *)

CachePrompts == { <<"q1">>, <<" ", "q1">>, <<"q2">> }
CacheResponses == { <<>>, <<"r1">>, <<"r2">> }
CacheEmbeddings == { <<10, 0>>, <<0, 10>>, EmbeddingFailed }

InitCache ==
    /\ accounts = <<>>
    /\ InitRest

NextCache ==
    \/ \E prompt \in CachePrompts, storeOk \in BOOLEAN : findResponse(prompt, storeOk)
    \/ \E embedding \in CacheEmbeddings : Find_Embedded(embedding)
    \/ \E prompt \in CachePrompts, response \in CacheResponses :
          captureAndStore(prompt, response)
    \/ \E embedding \in CacheEmbeddings, saveOk \in BOOLEAN :
          Capture_Embedded(embedding, saveOk)

SpecCache == InitCache /\ [][NextCache]_vars

\* An entry with the hash of the prompt exists.
ExactEntry(rows, prompt) ==
    \E i \in DOMAIN rows : rows[i].prompt_hash = generateHash(prompt)

\* C25: a lookup that does not throw returns the response of the entry with the
\* prompt's hash whenever there is one, whatever matches semantically; only
\* without such an entry does it go on to the embedding, and then it returns
\* the response of the first row whose dot product with the query vector
\* reaches the threshold, and null when no row does or the embedding call failed.
C25_LookupPrecedence ==
    [][ LET f == cm'.find
            called == cm.find.pc \in {"idle", "done"} /\ f # cm.find /\ ~f.threw
        IN  /\ (called /\ ExactEntry(cache, f.prompt)) =>
                   (f.pc = "done" /\ f.ret = findExact(cache, f.prompt))
            /\ (called /\ ~ExactEntry(cache, f.prompt)) => f.pc = "embedding"
            /\ (cm.find.pc = "embedding" /\ f.pc = "done") =>
                   f.ret = IF f.embedding = EmbeddingFailed THEN NoText
                           ELSE findSemantic(cache, f.embedding)
      ]_vars

---------------------------------------------------------------------------
(* Decrypt: the token manager with two concurrent callers over a store of   *)
(* two cloud accounts in which the token of one row may fail to decrypt.    *)

DecryptSeed == <<Cloud("a", Token0, <<>>), Cloud("b", Token0, <<>>)>>
Undecryptables == { {}, {"a"}, {"b"} }

InitDecrypt ==
    /\ accounts = DecryptSeed
    /\ settings = [auto_switch_enabled |-> FALSE]
    /\ tokens = <<>>
    /\ currentIndex = 0
    /\ cooldowns = [e \in Emails |-> 0]
    /\ now = 0
    /\ ticks = 0
    /\ gn = [p \in Procs |-> GnIdle]
    /\ rr = [some |-> FALSE, list |-> <<>>, id |-> "none"]
    /\ req = [p \in Procs |-> ReqIdle]
    /\ sw = SwIdle
    /\ demoted = {}
    /\ mon = MonIdle
    /\ undecryptable \in Undecryptables
    /\ cache = <<>>
    /\ cm = CmIdle
    /\ mig = MigIdle
    /\ cb = NewCircuitBreaker(DefaultFailureThreshold, DefaultResetTimeout)
    /\ runs = RunsIdle
    /\ strm = StrmIdle
    /\ srv = SrvIdle

\* The stored ciphertext of one row is damaged, or was written under another
\* key: from now on decrypt() rejects for it.
Row_Corrupted(id) ==
    /\ undecryptable = {}
    /\ undecryptable' = {id}
    /\ UNCHANGED <<accounts, settings, tokens, currentIndex, cooldowns, now, ticks, gn, rr,
                   req, sw, demoted, mon, cache, cm, mig, cb, runs, strm, srv>>

NextDecrypt ==
    \/ \E id \in {"a", "b"} : setActive(id)
    \/ \E id \in {"a", "b"} : Row_Corrupted(id)
    \/ \E p \in Procs : getNextToken(p, M_a)
    \/ \E p \in Procs : GN_Loaded(p)
    \/ \E p \in Procs : GN_Select(p)

SpecDecrypt == InitDecrypt /\ [][NextDecrypt]_vars

\* A stored row that decrypts.
Decryptable(rows, bad) == {rows[i].id : i \in DOMAIN rows} \ bad

\* C28: when one stored row cannot be decrypted and another can, the token
\* manager still loads and selects: a call of getNextToken for a model every
\* account serves does not return null.
C28_DecryptIsolation ==
    \A p \in Procs :
        (/\ gn[p].pc = "done"
         /\ undecryptable # {}
         /\ Decryptable(accounts, undecryptable) # {}) => gn[p].ret.some

---------------------------------------------------------------------------
(* Server: two callers (the start-up code and the IPC handlers of the       *)
(* settings window) start and stop the gateway's HTTP server on two ports.  *)

\* The port of the proxy configuration: absent, the default or another one.
ConfigPorts == {0} \cup Ports

InitServer ==
    /\ accounts = <<>>
    /\ InitRest

NextServer ==
    \/ \E c \in Callers, configPort \in ConfigPorts : bootstrapNestServer(c, configPort)
    \/ \E c \in Callers : stopNestServer(c)
    \/ \E c \in Callers, ok \in BOOLEAN : Srv_Closed(c, ok)
    \/ \E c \in Callers, ok \in BOOLEAN : Srv_Created(c, ok)
    \/ \E c \in Callers, free \in BOOLEAN : Srv_Listened(c, free)

SpecServer == InitServer /\ [][NextServer]_vars

\* C29: at most one server instance is listening and it is the one the module
\* references; isNestServerRunning is true only for an application that was
\* not closed.
C29_SingleInstance ==
    /\ Cardinality(Listening(srv.instances)) <= 1
    /\ \A i \in Listening(srv.instances) : srv.app = i
    /\ isNestServerRunning(srv) => srv.app \in Open(srv.instances)

\* A call of fn returns in this step.
SrvReturns(c, fn) ==
    srv.call[c].pc # "done" /\ srv'.call[c].pc = "done" /\ srv'.call[c].fn = fn

\* C30: when stopNestServer returns, app is null and currentPort is 0; when
\* bootstrapNestServer returns false, app is null and the application this
\* bootstrap created, if any, is closed.
C30_LifecycleCleanup ==
    [][ \A c \in Callers :
          /\ SrvReturns(c, "stop") => (srv'.app = 0 /\ srv'.currentPort = 0)
          /\ (SrvReturns(c, "bootstrap") /\ srv'.call[c].ret = "false") =>
                 /\ srv'.app = 0
                 /\ srv.call[c].pc = "listening" =>
                        srv'.instances[srv.call[c].target].state = "closed"
      ]_vars

\* C31: every listener that a bootstrap opened, on a first start or a restart,
\* is bound to 127.0.0.1 and to the port of the bootstrap's configuration, 8045
\* when the configuration has none.
C31_LoopbackOnly ==
    /\ \A i \in DOMAIN srv.instances :
          srv.instances[i].state = "listening" =>
              /\ srv.instances[i].host = "127.0.0.1"
              /\ srv.instances[i].port \in Ports
    /\ \A c \in Callers :
          LET a == srv.call[c]
          IN  (a.fn = "bootstrap" /\ a.pc = "done" /\ a.ret = "true") =>
                  /\ srv.instances[a.target].host = "127.0.0.1"
                  /\ srv.instances[a.target].port =
                         (IF a.config = 0 THEN 8045 ELSE a.config)

\* A restart without a configured port: the second application listens on
\* 127.0.0.1:8045 after the first was closed.
C31_Witness ==
    \E c \in Callers :
        LET a == srv.call[c]
        IN  /\ a.fn = "bootstrap" /\ a.pc = "done" /\ a.ret = "true"
            /\ a.config = 0
            /\ a.target = 2
            /\ srv.instances[1].state = "closed"
            /\ srv.instances[2] = [state |-> "listening", port |-> 8045, host |-> "127.0.0.1"]

---------------------------------------------------------------------------
(* Score: the auto-switcher over the active account A, of every status and  *)
(* with quotas inside and outside 0..100, and the candidate B.              *)

ScoreQuotas ==
    {NoQuota, QEmpty, Q0, Quota(<<10>>), Q50_100, Quota(<<150>>), Quota(<<0 - 50>>)}
ScoreStatuses == {"active", "refreshing", "rate_limited", "error", "expired"}

ScoreSeeds ==
    { <<Account("a", TRUE, Token0, qa, 0, sa, <<>>),
        Account("b", FALSE, Token0, Q50_100, 0, "active", <<>>)>> :
        qa \in ScoreQuotas, sa \in ScoreStatuses }

InitScore ==
    /\ accounts \in ScoreSeeds
    /\ settings = [auto_switch_enabled |-> TRUE]
    /\ tokens = <<>>
    /\ currentIndex = 0
    /\ cooldowns = [e \in Emails |-> 0]
    /\ now = 0
    /\ ticks = 0
    /\ gn = [p \in Procs |-> GnIdle]
    /\ rr = [some |-> FALSE, list |-> <<>>, id |-> "none"]
    /\ req = [p \in Procs |-> ReqIdle]
    /\ sw = SwIdle
    /\ demoted = {}
    /\ mon = MonIdle
    /\ undecryptable = {}
    /\ cache = <<>>
    /\ cm = CmIdle
    /\ mig = MigIdle
    /\ cb = NewCircuitBreaker(DefaultFailureThreshold, DefaultResetTimeout)
    /\ runs = RunsIdle
    /\ strm = StrmIdle
    /\ srv = SrvIdle

NextScore ==
    \/ \E id \in {"a", "b"}, quota \in ScoreQuotas : updateQuota(id, quota)
    \/ checkAndSwitchIfNeeded
    \/ SW_Read
    \/ SW_Found
    \/ SW_Switched

SpecScore == InitScore /\ [][NextScore]_vars

EqR(x, y) == x.num * y.den = y.num * x.den
InRange(x) == x.den > 0 /\ 0 <= x.num /\ x.num <= 100 * x.den

\* The score as the rule states it: 0.6 times the average percentage plus the
\* bonus of the status, brought into 0..100.
RuleScore(account) ==
    IF \/ ~account.quota.present
       \/ account.quota.models = <<>>
       \/ account.status \in {"rate_limited", "error"}
    THEN R(0, 1)
    ELSE LET n == Len(account.quota.models)
             bonus == IF account.status = "active" THEN 40
                      ELSE IF account.status = "refreshing" THEN 20 ELSE 0
             raw == R(6 * SumSeq(account.quota.models) + 10 * n * bonus, 10 * n)
         IN  IF raw.num < 0 THEN R(0, 1)
             ELSE IF raw.num > 100 * raw.den THEN R(100, 1) ELSE raw

\* C32: the health score of every account of the store, and of every account
\* the auto-switcher has read, is the score of the rule and lies in 0..100; so
\* does the score the auto-switcher holds for the active account.
C32_HealthScore ==
    /\ \A rows \in {accounts, sw.snap} : \A i \in DOMAIN rows :
          /\ EqR(calculateHealthScore(rows[i]), RuleScore(rows[i]))
          /\ InRange(calculateHealthScore(rows[i]))
    /\ (sw.pc \in {"finding", "switching"} /\ ~sw.direct) =>
          /\ InRange(sw.currentScore)
          /\ \E q \in ScoreQuotas, st \in ScoreStatuses :
                EqR(sw.currentScore,
                    RuleScore(Account(sw.currentAccountId, TRUE, Token0, q, 0, st, <<>>)))

\* The auto-switcher computed the score 6 for the active account A: quota 10,
\* a status without bonus.
C32_Witness ==
    /\ sw.pc = "finding" /\ ~sw.direct
    /\ sw.currentAccountId = "a"
    /\ EqR(sw.currentScore, R(6, 1))
    /\ \E i \in DOMAIN accounts :
          /\ accounts[i].id = "a" /\ accounts[i].status = "expired"
          /\ accounts[i].quota = Quota(<<10>>)

---------------------------------------------------------------------------
(* Migrate: init() over a store written before encryption, some of whose    *)
(* fields are plaintext, while the quota of its rows is updated.            *)

MigrateSeed ==
    <<Account("a", TRUE, Token0, Q0, 0, "active", <<>>),
      Account("b", FALSE, Token0, Q0, 0, "active", <<>>)>>
MigrateFields == {<<"a", "token">>, <<"a", "quota">>, <<"b", "token">>, <<"b", "quota">>}

InitMigrate ==
    /\ accounts = MigrateSeed
    /\ settings = [auto_switch_enabled |-> FALSE]
    /\ tokens = <<>>
    /\ currentIndex = 0
    /\ cooldowns = [e \in Emails |-> 0]
    /\ now = 0
    /\ ticks = 0
    /\ gn = [p \in Procs |-> GnIdle]
    /\ rr = [some |-> FALSE, list |-> <<>>, id |-> "none"]
    /\ req = [p \in Procs |-> ReqIdle]
    /\ sw = SwIdle
    /\ demoted = {}
    /\ mon = MonIdle
    /\ undecryptable = {}
    /\ cache = <<>>
    /\ cm = CmIdle
    /\ mig \in {[MigIdle EXCEPT !.plain = fields] : fields \in SUBSET MigrateFields}
    /\ cb = NewCircuitBreaker(DefaultFailureThreshold, DefaultResetTimeout)
    /\ runs = RunsIdle
    /\ strm = StrmIdle
    /\ srv = SrvIdle

NextMigrate ==
    \/ migrateToEncrypted
    \/ \E ok \in BOOLEAN : Mig_Encrypted(ok)
    \/ \E id \in {"a", "b"}, quota \in {Q0, Q50_100} : updateQuota(id, quota)

SpecMigrate == InitMigrate /\ [][NextMigrate]_vars

\* C34: when a migration whose encrypt calls all succeeded is over, no field
\* of the store is plaintext; a migration that finds no plaintext field changes
\* no row; and a write of the migration leaves the contents of every row as
\* they are in the store, so that no update written meanwhile is lost.
C34_Migration ==
    [][ /\ (mig.pc # "done" /\ mig'.pc = "done" /\ ~mig'.failed) => mig'.plain = {}
        /\ (mig.pc \in {"idle", "done"} /\ mig.plain = {} /\ mig' # mig) =>
               (accounts' = accounts /\ mig'.pc = "done" /\ mig'.plain = {})
        /\ (mig.pc \in {"encToken", "encQuota"} /\ mig'.pc # mig.pc) => accounts' = accounts
      ]_vars

---------------------------------------------------------------------------
(* Chunk: the two stream processors over an upstream whose bytes are fixed  *)
(* and arrive in chunks of any length.                                      *)

MaxLines == 2

ByteLines == {BytesText, BytesFinish, BytesMeta, BytesDone, BytesBad, BytesComment}

\* Every line is followed by an empty line; the last one may lack its newlines.
RECURSIVE ByteStreams(_, _)
ByteStreams(n, eol) ==
    IF n = 0 THEN {<<>>}
    ELSE {l \o eol \o eol \o rest : l \in ByteLines, rest \in ByteStreams(n - 1, eol)}

UpstreamBytes ==
    UNION {UNION {ByteStreams(n, eol) \cup
                  {SubSeq(b, 1, Len(b) - 2 * Len(eol)) : b \in ByteStreams(n, eol)} :
                      n \in 1..MaxLines} : eol \in {<<NL>>, <<CR, NL>>}}

InitChunk ==
    /\ accounts = <<>>
    /\ settings = [auto_switch_enabled |-> FALSE]
    /\ tokens = <<>>
    /\ currentIndex = 0
    /\ cooldowns = [e \in Emails |-> 0]
    /\ now = 0
    /\ ticks = 0
    /\ gn = [p \in Procs |-> GnIdle]
    /\ rr = [some |-> FALSE, list |-> <<>>, id |-> "none"]
    /\ req = [p \in Procs |-> ReqIdle]
    /\ sw = SwIdle
    /\ demoted = {}
    /\ mon = MonIdle
    /\ undecryptable = {}
    /\ cache = <<>>
    /\ cm = CmIdle
    /\ mig = MigIdle
    /\ cb = NewCircuitBreaker(DefaultFailureThreshold, DefaultResetTimeout)
    /\ runs = RunsIdle
    /\ \E kind \in {"anthropic", "openai"}, bytes \in UpstreamBytes :
           strm = [source |-> "upstream", kind |-> kind, up |-> "open", chunks |-> 0,
                   capture |-> NoSubscriber, client |-> NewSubscriber, prompt |-> <<>>,
                   store |-> "none", disconnected |-> FALSE,
                   bytes |-> bytes, pos |-> 0, buffer |-> <<>>, cut |-> FALSE]
    /\ srv = SrvIdle

NextChunk ==
    \/ \E n \in 1..(4 * MaxLines + 4) : Up_Chunk(n)
    \/ Up_Finish

SpecChunk == InitChunk /\ [][NextChunk]_vars

\* The subscription of a processor that got the first n bytes in one chunk.
InOneChunk(kind, bytes, n) == OnChunk(kind, NewSubscriber, <<>>, SubSeq(bytes, 1, n))

\* C35: whatever chunks the bytes of the upstream arrived in, the events
\* delivered so far and the state of the subscription are those of the
\* processor that got the same bytes in one chunk, and after 'end' those of
\* the processor that got the whole stream in one chunk and then 'end'; this
\* includes chunks that end inside a line and a last line without newline.
C35_ChunkingIndependence ==
    /\ (strm.up = "open" /\ strm.pos > 0) =>
           strm.client = InOneChunk(strm.kind, strm.bytes, strm.pos)
    /\ strm.up = "ended" =>
           strm.client = OnEnd(strm.kind, InOneChunk(strm.kind, strm.bytes, Len(strm.bytes)))

\* A stream that was cut inside a line and whose last line had no newline
\* ended after events were delivered.
C35_Witness ==
    /\ strm.up = "ended" /\ strm.cut /\ strm.buffer # <<>>
    /\ Len(strm.client.out) > 1

---------------------------------------------------------------------------
(* Coherence: the token manager's map against a store that changes between  *)
(* the calls of getNextToken: an account is removed, an account is added,   *)
(* the models of an account are selected.                                   *)

CoherenceSeed == <<Cloud("a", Token0, <<>>), Cloud("b", Token0, <<>>)>>

\* No call of getNextToken is in progress.
Quiet == \A p \in Procs : gn[p].pc \in {"idle", "done"}

InitCoherence ==
    /\ accounts = CoherenceSeed
    /\ InitRest

NextCoherence ==
    \/ Quiet /\ removeAccount("a")
    \/ Quiet /\ addAccount(Cloud("c", Token0, <<>>))
    \/ Quiet /\ updateSelectedModels("b", <<M_b>>)
    \/ \E p \in Procs, m \in ReqModels : getNextToken(p, m)
    \/ \E p \in Procs : GN_Loaded(p)
    \/ \E p \in Procs : GN_Select(p)

SpecCoherence == InitCoherence /\ [][NextCoherence]_vars

\* C36: an account returned by a call is a row of the store, and its
\* selected_models in the store are empty or hold the requested model, the
\* store having changed only between the calls.
C36_MapCoherence ==
    [][\A p \in Procs :
          ReturnStep(p) =>
              /\ HasId(accounts, gn'[p].ret.id)
              /\ isModelAllowed(gn[p].model,
                                accounts[RowIndex(accounts, gn'[p].ret.id)].selected_models)
      ]_vars

---------------------------------------------------------------------------
(* Tokens: a poll of the monitor and one caller of getNextToken over one    *)
(* cloud account whose token expires in 200 s and whose project id is not   *)
(* known, so that both refresh the token and the caller discovers the       *)
(* project.                                                                 *)

InitTokens ==
    /\ accounts = TimeSeed
    /\ InitRest

NextTokens ==
    \/ forcePoll
    \/ Poll_Read("forced")
    \/ PA_Start(<<"forced", 1>>)
    \/ PA_StatusSet(<<"forced", 1>>)
    \/ PA_Refreshed(<<"forced", 1>>, MonRefreshOk("t2", 3600))
    \/ PA_TokenSaved(<<"forced", 1>>)
    \/ getNextToken("p1", NoModel)
    \/ GN_Loaded("p1")
    \/ GN_Select("p1")
    \/ GN_Refreshed("p1")
    \/ GN_Saved("p1")
    \/ GN_Discovered("p1")
    \/ GN_SavedPid("p1")

SpecTokens == InitTokens /\ [][NextTokens]_vars

\* C37: a write of the token record by the monitor's task or by getNextToken
\* leaves the fields its writer did not obtain as the store holds them: the
\* monitor's write and the write of a refreshed token keep the project id, the
\* write of a project id keeps the access token and the expiry.
C37_NoLostTokenUpdate ==
    [][LET old == TokenOfRow(accounts, "a")
           new == TokenOfRow(accounts', "a")
       IN  /\ (\E t \in TaskNames(mon) :
                  TaskOf(mon, t).pc = "saveToken" /\ TaskOf(mon', t).pc # "saveToken") =>
                  new.project_id = old.project_id
           /\ (\E p \in Procs : gn[p].pc = "saving" /\ gn'[p].pc # "saving") =>
                  new.project_id = old.project_id
           /\ (\E p \in Procs : gn[p].pc = "savingPid" /\ gn'[p].pc # "savingPid") =>
                  /\ new.access_token = old.access_token
                  /\ new.expiry_timestamp = old.expiry_timestamp
      ]_vars

---------------------------------------------------------------------------
(* Overlap: the timer's polls and forced polls over an active account a and *)
(* an account b, with auto-switch enabled; the quota fetch succeeds or is   *)
(* rate-limited.                                                            *)

OverlapSeed ==
    <<Account("a", TRUE, Token0, Q50_100, 0, "active", <<>>), Cloud("b", Token0, <<>>)>>

InitOverlap ==
    /\ accounts = OverlapSeed
    /\ settings = [auto_switch_enabled |-> TRUE]
    /\ tokens = <<>>
    /\ currentIndex = 0
    /\ cooldowns = [e \in Emails |-> 0]
    /\ now = 0
    /\ ticks = 0
    /\ gn = [p \in Procs |-> GnIdle]
    /\ rr = [some |-> FALSE, list |-> <<>>, id |-> "none"]
    /\ req = [p \in Procs |-> ReqIdle]
    /\ sw = SwIdle
    /\ demoted = {}
    /\ mon = MonIdle
    /\ undecryptable = {}
    /\ cache = <<>>
    /\ cm = CmIdle
    /\ mig = MigIdle
    /\ cb = NewCircuitBreaker(DefaultFailureThreshold, DefaultResetTimeout)
    /\ runs = RunsIdle
    /\ strm = StrmIdle
    /\ srv = SrvIdle

NextOverlap ==
    \/ start
    \/ IntervalFired
    \/ forcePoll
    \/ \E P \in PollIds : Poll_Read(P)
    \/ \E P \in PollIds : Poll_Settled(P)
    \/ \E P \in PollIds : Poll_Checked(P)
    \/ \E t \in TaskIds : PA_Start(t)
    \/ \E t \in TaskIds : PA_StatusSet(t)
    \/ \E t \in TaskIds, out \in MonitorFetches : PA_Fetched(t, out)
    \/ \E t \in TaskIds : PA_QuotaSaved(t, Q50_100)
    \/ \E t \in TaskIds : PA_Returned(t)
    \/ \E t \in TaskIds : Sem_Released(t)
    \/ SW_Read
    \/ SW_Found
    \/ SW_Switched

SpecOverlap == InitOverlap /\ [][NextOverlap]_vars

\* The accounts of a poll: those it made a task for.
PolledIds(poll) == {poll.tasks[i].id : i \in DOMAIN poll.tasks}

\* C38: when every task of every poll has settled, no account has the status
\* refreshing; and the rows read by the auto-switch check of a poll show no
\* account of that poll in the status refreshing.
C38_NoRefreshingLeft ==
    /\ (\A P \in PollIds : AllSettled(mon.polls[P])) =>
           \A i \in DOMAIN accounts : accounts[i].status # "refreshing"
    /\ \A P \in PollIds :
           (mon.polls[P].pc = "checking" /\ sw.pc \in {"reading", "finding"}) =>
               \A i \in DOMAIN sw.snap :
                   sw.snap[i].id \in PolledIds(mon.polls[P]) =>
                       sw.snap[i].status # "refreshing"

---------------------------------------------------------------------------
(* Breaker: two callers of one CircuitBreaker, built with the default       *)
(* threshold and timeout or with a threshold of 2 and a timeout of one      *)
(* clock step, whose tasks succeed or fail while the clock advances.        *)

InitBreaker ==
    /\ accounts = <<>>
    /\ settings = [auto_switch_enabled |-> FALSE]
    /\ tokens = <<>>
    /\ currentIndex = 0
    /\ cooldowns = [e \in Emails |-> 0]
    /\ now = 0
    /\ ticks = 0
    /\ gn = [p \in Procs |-> GnIdle]
    /\ rr = [some |-> FALSE, list |-> <<>>, id |-> "none"]
    /\ req = [p \in Procs |-> ReqIdle]
    /\ sw = SwIdle
    /\ demoted = {}
    /\ mon = MonIdle
    /\ undecryptable = {}
    /\ cache = <<>>
    /\ cm = CmIdle
    /\ mig = MigIdle
    /\ cb \in {NewCircuitBreaker(DefaultFailureThreshold, DefaultResetTimeout),
               NewCircuitBreaker(2, TickMs)}
    /\ runs = RunsIdle
    /\ strm = StrmIdle
    /\ srv = SrvIdle

NextBreaker ==
    \/ \E p \in Procs : execute(p)
    \/ \E p \in Procs, ok \in BOOLEAN : CB_Settled(p, ok)
    \/ Tick

SpecBreaker == InitBreaker /\ [][NextBreaker]_vars

\* The step in which caller p calls execute.
ExecuteStep(p) == cb.calls[p].pc # "running" /\ cb'.calls[p] # cb.calls[p]

\* The step in which the task of caller p settles.
SettleStep(p) == cb.calls[p].pc = "running" /\ cb'.calls[p].pc = "done"

\* C39: the breaker becomes OPEN only by a task failure that is at least the
\* failureThreshold-th since the last success; an execute while OPEN before
\* the reset deadline is rejected and invokes no task; an execute while OPEN
\* after the deadline invokes the task in HALF_OPEN; in HALF_OPEN a success
\* gives CLOSED with failureCount 0 and a failure gives OPEN with a new, later
\* deadline.
C39_CircuitBreaker ==
    [][/\ (cb.state # "OPEN" /\ cb'.state = "OPEN") =>
              /\ \E p \in Procs : SettleStep(p) /\ cb'.calls[p].result = "failed"
              /\ cb'.streak >= cb.failureThreshold
       /\ \A p \in Procs :
              /\ (ExecuteStep(p) /\ cb.state = "OPEN" /\ now < cb.nextHalfOpenTime) =>
                     /\ cb'.calls[p] = [pc |-> "done", result |-> "rejected"]
                     /\ cb'.state = "OPEN"
              /\ (ExecuteStep(p) /\ cb.state = "OPEN" /\ now > cb.nextHalfOpenTime) =>
                     /\ cb'.calls[p].pc = "running"
                     /\ cb'.state = "HALF_OPEN"
              /\ (SettleStep(p) /\ cb.state = "HALF_OPEN") =>
                     IF cb'.calls[p].result = "resolved"
                     THEN cb'.state = "CLOSED" /\ cb'.failureCount = 0
                     ELSE /\ cb'.state = "OPEN"
                          /\ cb'.nextHalfOpenTime = now + cb.resetTimeout
                          /\ cb'.nextHalfOpenTime > cb.nextHalfOpenTime
      ]_vars

\* The breaker opened, rejected one caller, and after the timeout admitted the
\* other, whose task is pending in HALF_OPEN.
C39_Witness ==
    /\ cb.state = "HALF_OPEN"
    /\ \E p, q \in Procs :
          /\ cb.calls[p] = [pc |-> "done", result |-> "rejected"]
          /\ cb.calls[q].pc = "running"

---------------------------------------------------------------------------
(* Permits: MaxTasks calls of Semaphore.run whose tasks resolve or reject.  *)

InitPermits ==
    /\ accounts = <<>>
    /\ InitRest

NextPermits ==
    \/ \E i \in RunIds : run(i)
    \/ \E i \in RunIds : Run_Acquired(i)
    \/ \E i \in RunIds, ok \in BOOLEAN : Run_Settled(i, ok)
    \/ \E i \in RunIds : Run_Released(i)

SpecPermits == InitPermits /\ [][NextPermits]_vars

\* The continuations of run are resumed once their promise has settled, and
\* every task that was started settles.
SpecPermitsFair ==
    /\ SpecPermits
    /\ \A i \in RunIds : WF_vars(Run_Acquired(i))
    /\ \A i \in RunIds : WF_vars(\E ok \in BOOLEAN : Run_Settled(i, ok))
    /\ \A i \in RunIds : WF_vars(Run_Released(i))

\* The calls that hold a permit.
Holders == {i \in RunIds : runs.calls[i].pc \in {"granted", "running", "settled"}}

\* C40: every call of run gets its task started; the call resumed by a release
\* is the one that has waited longest; the active count is the number of calls
\* between acquire and release, whether their tasks resolved or rejected, and
\* is never negative.
C40_SemaphoreProgress ==
    /\ \A i \in RunIds :
           (runs.calls[i].pc \in {"waiting", "granted"}) ~>
               (runs.calls[i].pc \in {"running", "settled", "done"})
    /\ [][\A i \in RunIds :
             (runs.calls[i].pc = "waiting" /\ runs'.calls[i].pc = "granted") =>
                 \A j \in RunIds : runs.calls[j].pc = "waiting" => i <= j]_vars
    /\ [](runs.semaphore.activeCount = Cardinality(Holders))
    /\ [](runs.semaphore.activeCount >= 0)

\* All permits are held, one of them by a call that had to wait and was resumed
\* by the release of a call whose task rejected, and another call still waits.
C40_Witness ==
    /\ runs.semaphore.activeCount = MaxConcurrency
    /\ runs.semaphore.queue # <<>>
    /\ \E i, j \in RunIds :
          /\ runs.calls[i] = [pc |-> "done", outcome |-> "rejected"]
          /\ j > MaxConcurrency /\ runs.calls[j].pc = "running"

====
